---- MODULE Spec2Model ----
(***************************************************************************)
(* Model of arm/ripper/makemkv.py: the decoder of makemkvcon's robot-mode  *)
(* output (parse_content, parse_line, MakeMKVOutputChecker), the stream    *)
(* runner run(), the throttled info query makemkv_info with its consumers  *)
(* get_drives and TrackInfoProcessor (the track aggregator).               *)
(*                                                                         *)
(* A Python str is modelled as a sequence of one-character strings, so     *)
(* that split, strip and int() are computed character by character as the  *)
(* code computes them.  A Python call that can raise is modelled by an     *)
(* operator returning a record whose field exc names the exception class   *)
(* ("None" when the call returns).                                         *)
(***************************************************************************)
EXTENDS Integers, Sequences, FiniteSets, TLC

\* ------------------------------------------------------------------------
\* Bounds of the model
\* ------------------------------------------------------------------------

\* Largest number of lines the child process writes in a direct run() call.
MaxLines == 3

\* Largest number of lines the child process writes in an info query that
\* feeds the track aggregator.
MaxInfoLines == 4

\* Largest number of lines the child process writes in the drive scan of
\* get_drives.
MaxDriveLines == 2

\* Largest number of lines the child process writes in the info query of
\* makemkv_mkv.
MaxMkvLines == 3

\* Largest number of lines the child process writes in one rip of makemkv_mkv.
MaxRipLines == 1

\* Largest number of lines the child process writes in the drive scan that
\* makemkv makes for a drive without a MakeMKV disc number.
MaxFindLines == 1

\* Largest number of lines the child process writes in the drive scan of
\* get_drives on a machine without other makemkvcon processes.
MaxScanLines == 2

\* Largest ceiling of concurrent info queries a job is configured with.
MaxCeiling == 1

\* Largest number of makemkvcon processes that other programs keep running.
MaxRunning == 2

\* ------------------------------------------------------------------------
\* Program constants
\* ------------------------------------------------------------------------

MAKEMKV_UNKNOWN_DRV == 999

MAKEMKV_STREAM_CODE_TYPE_VIDEO == 6201

\* enum.Flag OutputType: the member names
OutputType == {"DRV", "MSG", "CINFO", "SINFO", "TCOUNT", "TINFO", "PRGV", "PRGC", "PRGT"}

\* class DriveVisible(enum.IntEnum)
DriveVisible_EMPTY == 0
DriveVisible_OPEN == 1
DriveVisible_LOADED == 2
DriveVisible_LOADING == 3
DriveVisible_NOT_ATTACHED == 256

\* DriveVisible(value): the member for a value, _missing_ gives NOT_ATTACHED
DriveVisible(value) ==
    IF value \in {DriveVisible_EMPTY, DriveVisible_OPEN, DriveVisible_LOADED,
                  DriveVisible_LOADING, DriveVisible_NOT_ATTACHED}
    THEN value
    ELSE DriveVisible_NOT_ATTACHED

\* DriveType(value): the member name for a value, _missing_ gives CD
DriveType(value) ==
    CASE value = 0 -> "CD"
      [] value = 1 -> "DVD"
      [] value = 12 -> "BD_TYPE1"
      [] value = 28 -> "BD_TYPE2"
      [] OTHER -> "CD"

\* class MessageID(enum.IntEnum): the codes the checker dispatches on
MessageID_LIBMKV_TRACE == 1002
MessageID_READ_ERROR == 2003
MessageID_WRITE_ERROR == 2019
MessageID_RIP_TITLE_ERROR == 5003
MessageID_RIP_COMPLETED == 5004
MessageID_RIP_DISC_OPEN_ERROR == 5010
MessageID_EVALUATION_PERIOD_EXPIRED_INFO == 5052
MessageID_EVALUATION_PERIOD_EXPIRED_SHAREWARE == 5055
MessageID_RIP_BACKUP_FAILED_PRE == 5096
MessageID_RIP_BACKUP_FAILED == 5080

\* class StreamID(enum.IntEnum)
StreamID_TYPE == 1
StreamID_ASPECT == 20
StreamID_FPS == 21

\* class TrackID(enum.IntEnum)
TrackID_DURATION == 9
TrackID_FILENAME == 27

\* ------------------------------------------------------------------------
\* Python str and int primitives, on sequences of characters
\* ------------------------------------------------------------------------

\* The exception field of a call that returned.
NoExc == "None"

Quote == "\""

\* A character is written here as a string of one character. Of the
\* characters c with c.isspace(), which str.strip() strips and str.split()
\* splits at, this notation can write: space, \t, \n, \r, \f, and as they
\* are the characters U+000B, U+001C, U+001D, U+001E, U+001F, U+0085, U+00A0
\* and U+1680. The others (U+2000 to U+200A, U+2028, U+2029, U+202F, U+205F,
\* U+3000) cannot be written in a string of this notation, so no text
\* of the model holds one.
Whitespace ==
    {" ", "\t", "\n", "\r", "\f", "", "", "", "", "", "", " ",
     " "}

\* the characters int() and float() skip around a number: those of
\* Whitespace but U+001C to U+001F, which is space, \t, \n, \r, \f, and as
\* they are the characters U+000B, U+0085, U+00A0 and U+1680
NumberSpace == {" ", "\t", "\n", "\r", "\f", "", "", " ", " "}

\* DecimalDigits[d + 1]: the characters int() and float() read as the
\* decimal digit d, which are the ASCII digit and the Unicode decimal
\* digits (category Nd) of that value that a string of this notation can
\* hold: those of the runs that start at U+06F0, U+07C0, U+09E6, U+0AE6,
\* U+0BE6, U+0CE6, U+0DE6, U+0ED0, U+1090, U+17E0, U+19D0, U+1A80, U+1A90,
\* U+1BB0, U+A8D0, U+A9D0, U+A9F0 and U+ABF0
DecimalDigits == <<
    {"0", "۰", "߀", "০", "૦", "௦", "೦", "෦", "໐", "႐", "០", "᧐", "᪀", "᪐", "᮰", "꣐", "꧐", "꧰", "꯰"},
    {"1", "۱", "߁", "১", "૧", "௧", "೧", "෧", "໑", "႑", "១", "᧑", "᪁", "᪑", "᮱", "꣑", "꧑", "꧱", "꯱"},
    {"2", "۲", "߂", "২", "૨", "௨", "೨", "෨", "໒", "႒", "២", "᧒", "᪂", "᪒", "᮲", "꣒", "꧒", "꧲", "꯲"},
    {"3", "۳", "߃", "৩", "૩", "௩", "೩", "෩", "໓", "႓", "៣", "᧓", "᪃", "᪓", "᮳", "꣓", "꧓", "꧳", "꯳"},
    {"4", "۴", "߄", "৪", "૪", "௪", "೪", "෪", "໔", "႔", "៤", "᧔", "᪄", "᪔", "᮴", "꣔", "꧔", "꧴", "꯴"},
    {"5", "۵", "߅", "৫", "૫", "௫", "೫", "෫", "໕", "႕", "៥", "᧕", "᪅", "᪕", "᮵", "꣕", "꧕", "꧵", "꯵"},
    {"6", "۶", "߆", "৬", "૬", "௬", "೬", "෬", "໖", "႖", "៦", "᧖", "᪆", "᪖", "᮶", "꣖", "꧖", "꧶", "꯶"},
    {"7", "۷", "߇", "৭", "૭", "௭", "೭", "෭", "໗", "႗", "៧", "᧗", "᪇", "᪗", "᮷", "꣗", "꧗", "꧷", "꯷"},
    {"8", "۸", "߈", "৮", "૮", "௮", "೮", "෮", "໘", "႘", "៨", "᧘", "᪈", "᪘", "᮸", "꣘", "꧘", "꧸", "꯸"},
    {"9", "۹", "߉", "৯", "૯", "௯", "೯", "෯", "໙", "႙", "៩", "᧙", "᪉", "᪙", "᮹", "꣙", "꧙", "꧹", "꯹"}
    >>

DigitVal(c) == (CHOOSE i \in 1..10 : c \in DecimalDigits[i]) - 1

\* str.lstrip(chars)
RECURSIVE LStrip(_, _)
LStrip(s, chars) ==
    IF s # <<>> /\ Head(s) \in chars THEN LStrip(Tail(s), chars) ELSE s

\* str.rstrip(chars)
RECURSIVE RStrip(_, _)
RStrip(s, chars) ==
    IF s # <<>> /\ s[Len(s)] \in chars
    THEN RStrip(SubSeq(s, 1, Len(s) - 1), chars)
    ELSE s

\* str.strip(chars): every leading and every trailing character of chars
PyStrip(s, chars) == RStrip(LStrip(s, chars), chars)

\* str.find(sep, i): first index >= i where sep occurs in s, 0 when none
RECURSIVE PyFind(_, _, _)
PyFind(s, sep, i) ==
    IF i + Len(sep) - 1 > Len(s) THEN 0
    ELSE IF SubSeq(s, i, i + Len(sep) - 1) = sep THEN i
    ELSE PyFind(s, sep, i + 1)

\* str.split(sep, maxsplit) for a non-empty sep; maxsplit = -1 is unlimited
RECURSIVE PySplit(_, _, _)
PySplit(s, sep, maxsplit) ==
    LET i == PyFind(s, sep, 1) IN
    IF maxsplit = 0 \/ i = 0 THEN <<s>>
    ELSE <<SubSeq(s, 1, i - 1)>>
         \o PySplit(SubSeq(s, i + Len(sep), Len(s)), sep, maxsplit - 1)

\* str.split(): the first whitespace-delimited word of s, <<>> when s has none
RECURSIVE TakeWord(_)
TakeWord(s) ==
    IF s = <<>> \/ Head(s) \in Whitespace THEN <<>>
    ELSE <<Head(s)>> \o TakeWord(Tail(s))

FirstWord(s) == TakeWord(LStrip(s, Whitespace))

\* value of a non-empty sequence of decimal digits
RECURSIVE DigitsValue(_)
DigitsValue(s) ==
    IF s = <<>> THEN 0
    ELSE 10 * DigitsValue(SubSeq(s, 1, Len(s) - 1)) + DigitVal(s[Len(s)])

NotUnderscore(c) == c # "_"

\* decimal digits with single underscores between them
DigitPart(p) ==
    /\ p # <<>>
    /\ \A i \in 1..Len(p) :
          p[i] = "_" \/ \E d \in 1..10 : p[i] \in DecimalDigits[d]
    /\ p[1] # "_"
    /\ p[Len(p)] # "_"
    /\ \A i \in 1..(Len(p) - 1) : ~(p[i] = "_" /\ p[i + 1] = "_")

\* sys.int_info.default_max_str_digits: the most digits of a text that
\* int() converts
default_max_str_digits == 4300

\* int(s) of a str: surrounding whitespace and one sign are accepted, then
\* decimal digits, ASCII or not, with single underscores between them, at
\* most default_max_str_digits digits; anything else raises ValueError.
PyInt(s) ==
    LET t == PyStrip(s, NumberSpace)
        signed == t # <<>> /\ Head(t) \in {"+", "-"}
        u == IF signed THEN Tail(t) ELSE t
        Value(d) ==
            DigitsValue(SubSeq(d,
                1 + Cardinality({i \in 1..Len(d) :
                                    \A j \in 1..i : d[j] \in DecimalDigits[1]}),
                Len(d)))
        v == Value(SelectSeq(u, NotUnderscore))
    IN  IF /\ DigitPart(u)
           /\ Len(SelectSeq(u, NotUnderscore)) <= default_max_str_digits
        THEN [exc |-> NoExc,
              val |-> IF signed /\ Head(t) = "-" THEN 0 - v ELSE v]
        ELSE [exc |-> "ValueError", val |-> 0]

\* the decimal digits of a natural number
RECURSIVE IntStr(_)
IntStr(n) ==
    LET d == <<"0", "1", "2", "3", "4", "5", "6", "7", "8", "9">>[(n % 10) + 1]
    IN  IF n < 10 THEN <<d>> ELSE IntStr(n \div 10) \o <<d>>

\* the first exception of a sequence of results, NoExc when all returned
RECURSIVE FirstExc(_)
FirstExc(rs) ==
    IF rs = <<>> THEN NoExc
    ELSE IF Head(rs).exc # NoExc THEN Head(rs).exc
    ELSE FirstExc(Tail(rs))

\* ------------------------------------------------------------------------
\* Python None and optional values
\* ------------------------------------------------------------------------

\* None, and a value that is not None
None == <<>>

Some(x) == <<x>>

\* truth value of an int-or-None, as in `if proc.returncode:`
Truthy(v) == v # None /\ v[1] # 0

\* ------------------------------------------------------------------------
\* Field tokenizer
\* ------------------------------------------------------------------------

\* parse_content(content, num_header, num_message): the tokens of a payload,
\* split at ',' and then at the separator '","' of two adjacent quoted fields
parse_content(content, num_header, num_message) ==
    LET header == PySplit(content, <<",">>, num_header)
        message == PySplit(header[Len(header)], <<Quote, ",", Quote>>,
                           num_message)
    IN  SubSeq(header, 1, Len(header) - 1)
        \o [i \in 1..Len(message) |-> PyStrip(message[i], {Quote})]

\* ------------------------------------------------------------------------
\* Record classes (dataclasses): the constructor takes the positional
\* arguments; a wrong number of them raises TypeError, a field that int()
\* rejects in __post_init__ raises ValueError.
\* ------------------------------------------------------------------------

\* the data of a call that raised
NoData == [cls |-> "None"]

Raised(e) == [exc |-> e, data |-> NoData]

Returned(d) == [exc |-> NoExc, data |-> d]

\* MakeMKVMessage(code, flags, count, message, sprintf): head holds the
\* arguments before sprintf
MakeMKVMessage(head, sprintf) ==
    IF Len(head) # 4 THEN Raised("TypeError")
    ELSE LET code == PyInt(head[1])
             flags == PyInt(head[2])
             count == PyInt(head[3])
             e == FirstExc(<<code, flags, count>>)
         IN  IF e # NoExc THEN Raised(e)
             ELSE Returned([cls |-> "MakeMKVMessage", code |-> code.val,
                            flags |-> flags.val, count |-> count.val,
                            message |-> head[4], sprintf |-> sprintf])

\* MakeMKVErrorMessage(*dataclasses.astuple(data), data.message)
MakeMKVErrorMessage(data) ==
    IF Len(data.sprintf) < 2 THEN Raised("ValueError")
    ELSE Returned([cls |-> "MakeMKVErrorMessage", code |-> data.code,
                   flags |-> data.flags, count |-> data.count,
                   message |-> data.message,
                   sprintf |-> SubSeq(data.sprintf, 3, Len(data.sprintf)),
                   error |-> data.sprintf[2]])

\* Titles(count)
Titles(args) ==
    IF Len(args) # 1 THEN Raised("TypeError")
    ELSE LET count == PyInt(args[1])
         IN  IF count.exc # NoExc THEN Raised(count.exc)
             ELSE Returned([cls |-> "Titles", count |-> count.val])

\* CInfo(id, code, value)
CInfo(args) ==
    IF Len(args) # 3 THEN Raised("TypeError")
    ELSE LET id == PyInt(args[1])
             code == PyInt(args[2])
             e == FirstExc(<<id, code>>)
         IN  IF e # NoExc THEN Raised(e)
             ELSE Returned([cls |-> "CInfo", id |-> id.val, code |-> code.val,
                            value |-> args[3]])

\* TInfo(id, code, value, tid)
TInfo(args) ==
    IF Len(args) # 4 THEN Raised("TypeError")
    ELSE LET id == PyInt(args[1])
             code == PyInt(args[2])
             tid == PyInt(args[4])
             e == FirstExc(<<id, code, tid>>)
         IN  IF e # NoExc THEN Raised(e)
             ELSE Returned([cls |-> "TInfo", id |-> id.val, code |-> code.val,
                            value |-> args[3], tid |-> tid.val])

\* SInfo(id, code, value, tid, sid)
SInfo(args) ==
    IF Len(args) # 5 THEN Raised("TypeError")
    ELSE LET id == PyInt(args[1])
             code == PyInt(args[2])
             tid == PyInt(args[4])
             sid == PyInt(args[5])
             e == FirstExc(<<id, code, tid, sid>>)
         IN  IF e # NoExc THEN Raised(e)
             ELSE Returned([cls |-> "SInfo", id |-> id.val, code |-> code.val,
                            value |-> args[3], tid |-> tid.val,
                            sid |-> sid.val])

\* ProgressBarValues(current, total, maximum)
ProgressBarValues(args) ==
    IF Len(args) # 3 THEN Raised("TypeError")
    ELSE LET current == PyInt(args[1])
             total == PyInt(args[2])
             maximum == PyInt(args[3])
             e == FirstExc(<<current, total, maximum>>)
         IN  IF e # NoExc THEN Raised(e)
             ELSE Returned([cls |-> "ProgressBarValues",
                            current |-> current.val, total |-> total.val,
                            maximum |-> maximum.val])

\* ProgressBarTitle(code, oid, name), the base of ProgressBarCurrent and
\* ProgressBarTotal; cls names the subclass
ProgressBarTitle(cls, args) ==
    IF Len(args) # 3 THEN Raised("TypeError")
    ELSE LET code == PyInt(args[1])
             oid == PyInt(args[2])
             e == FirstExc(<<code, oid>>)
         IN  IF e # NoExc THEN Raised(e)
             ELSE Returned([cls |-> cls, code |-> code.val, oid |-> oid.val,
                            name |-> args[3]])

ProgressBarCurrent(args) == ProgressBarTitle("ProgressBarCurrent", args)

ProgressBarTotal(args) == ProgressBarTitle("ProgressBarTotal", args)

\* Drive(mount, disc, info, flags, enabled, visible, index) with the derived
\* fields of Drive.__post_init__
Drive(args) ==
    IF Len(args) # 7 THEN Raised("TypeError")
    ELSE LET flags == PyInt(args[4])
             enabled == PyInt(args[5])
             visible == PyInt(args[6])
             index == PyInt(args[7])
             e == FirstExc(<<flags, enabled, visible, index>>)
             drive_type == DriveType(flags.val)
             drive_visible == DriveVisible(visible.val)
         IN  IF e # NoExc THEN Raised(e)
             ELSE Returned([cls |-> "Drive",
                    mount |-> args[1], disc |-> args[2], info |-> args[3],
                    flags |-> flags.val,
                    enabled |-> (enabled.val = MAKEMKV_UNKNOWN_DRV),
                    visible |-> visible.val,
                    index |-> index.val,
                    loaded |-> drive_visible \in {DriveVisible_LOADED,
                                                  DriveVisible_LOADING},
                    open |-> drive_visible = DriveVisible_OPEN,
                    attached |-> drive_visible # DriveVisible_NOT_ATTACHED,
                    media_cd |-> drive_type = "CD",
                    media_dvd |-> drive_type = "DVD",
                    media_bd |-> drive_type \in {"BD_TYPE1", "BD_TYPE2"}])

\* ------------------------------------------------------------------------
\* Message classifier
\* ------------------------------------------------------------------------

\* Internal error - Operation result is incorrect (132)
ERROR_MESSAGE_OPERATION_RESULT ==
    <<"I","n","t","e","r","n","a","l"," ","e","r","r","o","r"," ","-"," ","O",
      "p","e","r","a","t","i","o","n"," ","r","e","s","u","l","t"," ","i","s",
      " ","i","n","c","o","r","r","e","c","t"," ","(","1","3","2",")">>

\* Scsi error - NOT READY:MEDIUM NOT PRESENT - TRAY OPEN
ERROR_MESSAGE_TRAY_OPEN ==
    <<"S","c","s","i"," ","e","r","r","o","r"," ","-"," ","N","O","T"," ","R",
      "E","A","D","Y",":","M","E","D","I","U","M"," ","N","O","T"," ","P","R",
      "E","S","E","N","T"," ","-"," ","T","R","A","Y"," ","O","P","E","N">>

\* Scsi error - MEDIUM ERROR:L-EC UNCORRECTABLE ERROR
ERROR_MESSAGE_MEDIUM_ERROR ==
    <<"S","c","s","i"," ","e","r","r","o","r"," ","-"," ","M","E","D","I","U",
      "M"," ","E","R","R","O","R",":","L","-","E","C"," ","U","N","C","O","R",
      "R","E","C","T","A","B","L","E"," ","E","R","R","O","R">>

\* Scsi error - HARDWARE ERROR:441E
ERROR_MESSAGE_HARDWARE_ERROR ==
    <<"S","c","s","i"," ","e","r","r","o","r"," ","-"," ","H","A","R","D","W",
      "A","R","E"," ","E","R","R","O","R",":","4","4","1","E">>

\* Posix error - No such file or directory
ERROR_MESSAGE_POSIX ==
    <<"P","o","s","i","x"," ","e","r","r","o","r"," ","-"," ","N","o"," ","s",
      "u","c","h"," ","f","i","l","e"," ","o","r"," ","d","i","r","e","c","t",
      "o","r","y">>

\* error possibly fatal, creating zombie processes
DEBUG_ZOMBIE ==
    <<"e","r","r","o","r"," ","p","o","s","s","i","b","l","y"," ","f","a","t",
      "a","l",","," ","c","r","e","a","t","i","n","g"," ","z","o","m","b","i",
      "e"," ","p","r","o","c","e","s","s","e","s">>

\* error mostly non fatal
DEBUG_NON_FATAL ==
    <<"e","r","r","o","r"," ","m","o","s","t","l","y"," ","n","o","n"," ","f",
      "a","t","a","l">>

\* error possibly fatal, medium removed during mkv backup
DEBUG_MEDIUM_REMOVED ==
    <<"e","r","r","o","r"," ","p","o","s","s","i","b","l","y"," ","f","a","t",
      "a","l",","," ","m","e","d","i","u","m"," ","r","e","m","o","v","e","d",
      " ","d","u","r","i","n","g"," ","m","k","v"," ","b","a","c","k","u","p">>

SPECIAL_ERROR_CODES ==
    {MessageID_EVALUATION_PERIOD_EXPIRED_SHAREWARE, MessageID_RIP_BACKUP_FAILED}

\* LOG_ONLY_CODES: the codes, and the logging function of each
LOG_ONLY_CODES ==
    {MessageID_RIP_DISC_OPEN_ERROR, MessageID_RIP_TITLE_ERROR,
     MessageID_RIP_COMPLETED, MessageID_LIBMKV_TRACE,
     MessageID_RIP_BACKUP_FAILED_PRE, MessageID_EVALUATION_PERIOD_EXPIRED_INFO}

LOG_ONLY_FUNC(code) ==
    IF code \in {MessageID_RIP_DISC_OPEN_ERROR, MessageID_RIP_COMPLETED}
    THEN "info"
    ELSE "warning"

\* one call of a function of logging: its level and its text
LogCall(level, msg) == [level |-> level, msg |-> msg]

\* a result together with the logging calls made on the way to it
WithLog(r, calls) == [exc |-> r.exc, data |-> r.data, log |-> calls]

\* the logging calls of a result, none when it carries none
LogOf(r) == IF "log" \in DOMAIN r THEN r.log ELSE <<>>

\* mutant of READ_ERROR_MAP: the tray-open error is logged as critical
READ_ERROR_MAP_TrayCritical(error_msg) ==
    CASE error_msg = ERROR_MESSAGE_OPERATION_RESULT ->
            [log_func |-> "critical", debug_msg |-> Some(DEBUG_ZOMBIE)]
      [] error_msg = ERROR_MESSAGE_TRAY_OPEN ->
            [log_func |-> "critical", debug_msg |-> Some(DEBUG_NON_FATAL)]
      [] error_msg = ERROR_MESSAGE_MEDIUM_ERROR ->
            [log_func |-> "critical", debug_msg |-> Some(DEBUG_MEDIUM_REMOVED)]
      [] error_msg = ERROR_MESSAGE_HARDWARE_ERROR ->
            [log_func |-> "critical", debug_msg |-> Some(DEBUG_MEDIUM_REMOVED)]
      [] OTHER -> [log_func |-> "warning", debug_msg |-> None]

\* READ_ERROR_MAP.get(error_msg, (logging.warning, None))
READ_ERROR_MAP(error_msg) ==
    CASE error_msg = ERROR_MESSAGE_OPERATION_RESULT ->
            [log_func |-> "critical", debug_msg |-> Some(DEBUG_ZOMBIE)]
      [] error_msg = ERROR_MESSAGE_TRAY_OPEN ->
            [log_func |-> "info", debug_msg |-> Some(DEBUG_NON_FATAL)]
      [] error_msg = ERROR_MESSAGE_MEDIUM_ERROR ->
            [log_func |-> "critical", debug_msg |-> Some(DEBUG_MEDIUM_REMOVED)]
      [] error_msg = ERROR_MESSAGE_HARDWARE_ERROR ->
            [log_func |-> "critical", debug_msg |-> Some(DEBUG_MEDIUM_REMOVED)]
      [] OTHER -> [log_func |-> "warning", debug_msg |-> None]

\* MakeMKVOutputChecker.read_error: sprintf[1] raises IndexError when the
\* message carries no parameter
read_error(data) ==
    IF Len(data.sprintf) < 2 THEN Raised("IndexError")
    ELSE LET error_msg == data.sprintf[2]
             entry == READ_ERROR_MAP(error_msg)
             noted == entry.debug_msg # None /\ entry.debug_msg[1] # <<>>
             log_message == IF noted THEN data.message ELSE error_msg
         IN  WithLog(MakeMKVErrorMessage(data),
                     (IF noted THEN <<LogCall("debug", entry.debug_msg[1])>>
                      ELSE <<>>)
                     \o <<LogCall(entry.log_func, log_message)>>)

\* MakeMKVOutputChecker.write_error
write_error(data) ==
    IF Len(data.sprintf) < 2 THEN Raised("IndexError")
    ELSE LET error_msg == data.sprintf[2]
         IN  WithLog(MakeMKVErrorMessage(data),
                     IF error_msg = ERROR_MESSAGE_POSIX
                     THEN <<LogCall("critical", data.message)>>
                     ELSE <<LogCall("warning", error_msg)>>)

\* mutant of special_error_code: the message is returned as it is
special_error_code_Unchanged(data) == Returned(data)

\* MakeMKVOutputChecker.special_error_code
special_error_code(data) == MakeMKVErrorMessage(data)

\* MakeMKVOutputChecker.log_only_code
log_only_code(data) ==
    WithLog(Returned(data),
            <<LogCall(LOG_ONLY_FUNC(data.code), data.message)>>)

\* mutant of check: the log-only codes are promoted to errors
check_LogOnlyPromoted(data) ==
    IF data.code = MessageID_READ_ERROR THEN read_error(data)
    ELSE IF data.code = MessageID_WRITE_ERROR THEN write_error(data)
    ELSE IF data.code \in SPECIAL_ERROR_CODES \cup LOG_ONLY_CODES
    THEN special_error_code(data)
    ELSE Returned(data)

\* MakeMKVOutputChecker(data).check()
check(data) ==
    IF data.code = MessageID_READ_ERROR THEN read_error(data)
    ELSE IF data.code = MessageID_WRITE_ERROR THEN write_error(data)
    ELSE IF data.code \in SPECIAL_ERROR_CODES THEN special_error_code(data)
    ELSE IF data.code \in LOG_ONLY_CODES THEN log_only_code(data)
    ELSE Returned(data)

\* ------------------------------------------------------------------------
\* Record decoder
\* ------------------------------------------------------------------------

\* OutputType.__members__: the member named by the characters before ':',
\* "None" when there is none
MemberOf(msg_type) ==
    CASE msg_type = <<"D","R","V">> -> "DRV"
      [] msg_type = <<"M","S","G">> -> "MSG"
      [] msg_type = <<"C","I","N","F","O">> -> "CINFO"
      [] msg_type = <<"S","I","N","F","O">> -> "SINFO"
      [] msg_type = <<"T","C","O","U","N","T">> -> "TCOUNT"
      [] msg_type = <<"T","I","N","F","O">> -> "TINFO"
      [] msg_type = <<"P","R","G","V">> -> "PRGV"
      [] msg_type = <<"P","R","G","C">> -> "PRGC"
      [] msg_type = <<"P","R","G","T">> -> "PRGT"
      [] OTHER -> "None"

Reverse(s) == [i \in 1..Len(s) |-> s[Len(s) + 1 - i]]

\* the result of parse_line: the exception, or the pair (msg_type, message)
Decoded(msg_type, r) ==
    [exc |-> r.exc,
     msg_type |-> IF r.exc = NoExc THEN msg_type ELSE "None",
     data |-> r.data,
     log |-> LogOf(r)]

\* mutant of ParseMSG: a classified error message is raised
ParseMSG_ErrorRaises(content) ==
    LET temp == parse_content(content, 3, 0 - 1)
        head == SubSeq(temp, 1, IF Len(temp) < 4 THEN Len(temp) ELSE 4)
        data == MakeMKVMessage(head, SubSeq(temp, 5, Len(temp)))
        r == check(data.data)
    IN  IF data.exc # NoExc THEN data
        ELSE IF r.exc = NoExc /\ r.data.cls = "MakeMKVErrorMessage"
        THEN WithLog(Raised("MakeMkvRuntimeError"), LogOf(r))
        ELSE r

\* the MSG branch: decode, then classify
ParseMSG(content) ==
    LET temp == parse_content(content, 3, 0 - 1)
        head == SubSeq(temp, 1, IF Len(temp) < 4 THEN Len(temp) ELSE 4)
        data == MakeMKVMessage(head, SubSeq(temp, 5, Len(temp)))
    IN  IF data.exc # NoExc THEN data ELSE check(data.data)

\* the SINFO branch: tid, sid, *info = ...; SInfo(*info, tid, sid)
ParseSINFO(content) ==
    LET t == parse_content(content, 4, 0)
    IN  IF Len(t) < 2 THEN Raised("ValueError")
        ELSE SInfo(SubSeq(t, 3, Len(t)) \o <<t[1], t[2]>>)

\* the TINFO branch: tid, *info = ...; TInfo(*info, tid)
ParseTINFO(content) ==
    LET t == parse_content(content, 3, 0)
    IN  TInfo(SubSeq(t, 2, Len(t)) \o <<t[1]>>)

\* parse_line(line)
parse_line(line) ==
    IF PyFind(line, <<":">>, 1) = 0
    THEN Decoded("None", Raised("MakeMkvParserError"))
    ELSE
    LET parts == PySplit(line, <<":">>, 1)
        msg_type == MemberOf(parts[1])
        content == parts[2]
    IN  IF msg_type \notin OutputType
        THEN Decoded("None", Raised("MakeMkvParserError"))
        ELSE Decoded(msg_type,
               CASE msg_type = "MSG" -> ParseMSG(content)
                 [] msg_type = "PRGV" ->
                        ProgressBarValues(parse_content(content, 2, 0))
                 [] msg_type = "PRGC" ->
                        ProgressBarCurrent(parse_content(content, 2, 0))
                 [] msg_type = "PRGT" ->
                        ProgressBarTotal(parse_content(content, 2, 0))
                 [] msg_type = "SINFO" -> ParseSINFO(content)
                 [] msg_type = "TINFO" -> ParseTINFO(content)
                 [] msg_type = "CINFO" -> CInfo(parse_content(content, 2, 0))
                 [] msg_type = "DRV" ->
                        Drive(Reverse(parse_content(content, 4, 2)))
                 [] msg_type = "TCOUNT" -> Titles(parse_content(content, 0, 0)))

\* ------------------------------------------------------------------------
\* float(s) and str(x) of a float.  The value of the literal is rounded to
\* the nearest IEEE 754 double (ties to even) and repr gives the shortest
\* digits that read back as the same double.  Natural numbers of any size
\* are sequences of decimal digits with the units first and no leading
\* zero, so that 0 is <<>>.
\* ------------------------------------------------------------------------

\* the number without the zeros above its leading digit
BTrim(a) ==
    LET n == Len(a)
        z == CHOOSE z \in 0..n :
                /\ \A u \in 1..z : a[n + 1 - u] = 0
                /\ z = n \/ a[n - z] # 0
    IN  SubSeq(a, 1, n - z)

\* -1, 0 or 1 as a is below, equal to or above b
BCmp(a, b) ==
    IF Len(a) # Len(b) THEN (IF Len(a) < Len(b) THEN 0 - 1 ELSE 1)
    ELSE IF a = b THEN 0
    ELSE LET n == Len(a)
             t == CHOOSE t \in 1..n :
                     /\ a[n + 1 - t] # b[n + 1 - t]
                     /\ \A u \in 1..(t - 1) : a[n + 1 - u] = b[n + 1 - u]
         IN  IF a[n + 1 - t] < b[n + 1 - t] THEN 0 - 1 ELSE 1

\* the digit of a at place i, 0 above its leading digit
BDigit(a, i) == IF i <= Len(a) THEN a[i] ELSE 0

\* whether the places below i of the digit sums s carry into place i, with
\* nine the sum that passes a carry on
BCarry(s, i, nine) ==
    IF \A t \in 1..(i - 1) : s[i - t] = nine THEN FALSE
    ELSE LET t == CHOOSE t \in 1..(i - 1) :
                     /\ s[i - t] # nine
                     /\ \A u \in 1..(t - 1) : s[i - u] = nine
         IN  s[i - t] > nine

\* a + b
BAdd(a, b) ==
    LET n == (IF Len(a) > Len(b) THEN Len(a) ELSE Len(b)) + 1
        s == SubSeq([i \in 1..n |-> BDigit(a, i) + BDigit(b, i)], 1, n)
    IN  BTrim([i \in 1..n |->
                 (s[i] + (IF BCarry(s, i, 9) THEN 1 ELSE 0)) % 10])

\* a - b for a >= b
BSub(a, b) ==
    LET n == Len(a)
        s == SubSeq([i \in 1..n |-> BDigit(b, i) - a[i]], 1, n)
    IN  BTrim([i \in 1..n |->
                 (a[i] - BDigit(b, i) + 10
                    - (IF BCarry(s, i, 0) THEN 1 ELSE 0)) % 10])

\* 2 * a
BDouble(a) ==
    BTrim([i \in 1..(Len(a) + 1) |->
             (2 * BDigit(a, i) + (IF i > 1 /\ a[i - 1] >= 5 THEN 1 ELSE 0))
                 % 10])

\* a * 2^n, a unchanged for n <= 0
RECURSIVE BShl(_, _)
BShl(a, n) ==
    IF n <= 0 THEN a
    ELSE IF n = 1 THEN BDouble(a)
    ELSE LET h == BShl(a, n \div 2)
         IN  IF Len(h) = 0 THEN h ELSE BShl(h, n - (n \div 2))

\* a * 10^n
BTimes10(a, n) ==
    IF a = <<>> \/ n <= 0 THEN a
    ELSE SubSeq([i \in 1..(Len(a) + n) |-> IF i <= n THEN 0 ELSE a[i - n]],
                1, Len(a) + n)

\* d * a for a digit d
BTimesDigit(a, d) ==
    LET Times(a2, a4, a8) ==
            CASE d = 0 -> <<>>
              [] d = 1 -> a
              [] d = 2 -> a2
              [] d = 3 -> BAdd(a2, a)
              [] d = 4 -> a4
              [] d = 5 -> BAdd(a4, a)
              [] d = 6 -> BAdd(a4, a2)
              [] d = 7 -> BSub(a8, a)
              [] d = 8 -> a8
              [] d = 9 -> BAdd(a8, a)
    IN  Times(BDouble(a), BDouble(BDouble(a)), BDouble(BDouble(BDouble(a))))

\* quotient and remainder of a by b, for a < 10 * b
BQuoRem(a, b) ==
    LET Left(q) == [q |-> q, r |-> BSub(a, BTimesDigit(b, q))]
    IN  Left(Cardinality({d \in 1..9 : BCmp(BTimesDigit(b, d), a) <= 0}))

\* long division of r by b, for r < 10^(hi + 1) * b: the digits of the
\* places lo..hi of the quotient and what is left of r, the upper half of
\* the places first
RECURSIVE BDivDigits(_, _, _, _)
BDivDigits(r, b, lo, hi) ==
    LET One(d) == [q |-> <<d.q>>, r |-> d.r]
        Both(h, l) == [q |-> l.q \o h.q, r |-> l.r]
        Low(h, mid) == Both(h, BDivDigits(h.r, b, lo, mid))
        Halves(mid) == Low(BDivDigits(r, b, mid + 1, hi), mid)
    IN  IF BCmp(r, BTimes10(b, lo)) < 0
        THEN [q |-> SubSeq([i \in 1..(hi - lo + 1) |-> 0], 1, hi - lo + 1),
              r |-> r]
        ELSE IF lo = hi THEN One(BQuoRem(r, BTimes10(b, lo)))
        ELSE Halves((lo + hi) \div 2)

\* quotient and remainder of a by b
BDivMod(a, b) ==
    LET Trimmed(d) == [q |-> BTrim(d.q), r |-> d.r]
    IN  IF Len(a) < Len(b) THEN [q |-> <<>>, r |-> a]
        ELSE Trimmed(BDivDigits(a, b, 0, Len(a) - Len(b)))

\* the number a sequence of digit characters denotes
BNum(s) == BTrim([i \in 1..Len(s) |-> DigitVal(s[Len(s) + 1 - i])])

\* the parameters of the double format
DBL_MANT_DIG == 53

DBL_MIN_EXP2 == 0 - 1074

DBL_MAX_EXP2 == 971

\* DBL_DIG: literals of that many digits denote doubles of their own
DBL_DIG == 15

\* the largest k <= hi with p * 2^(-k) >= q, for lo with p * 2^(-lo) >= q
RECURSIVE BLog2(_, _, _, _)
BLog2(p, q, lo, hi) ==
    IF lo = hi THEN lo
    ELSE LET mid == lo + ((hi - lo + 1) \div 2)
         IN  IF BCmp(BShl(p, 0 - mid), BShl(q, mid)) >= 0
             THEN BLog2(p, q, mid, hi)
             ELSE BLog2(p, q, lo, mid - 1)

\* the double nearest to p / q, for p > 0: mantissa m and exponent k of
\* m * 2^k with m < 2^53, m >= 2^52 unless k is the least exponent; inf when
\* it is above the largest double
NearestDouble(p, q) ==
    LET Made(m, k) == [inf |-> k > DBL_MAX_EXP2, m |-> m, k |-> k]
        Carried(m, k) ==
            IF m = BShl(<<1>>, DBL_MANT_DIG)
            THEN Made(BShl(<<1>>, DBL_MANT_DIG - 1), k + 1)
            ELSE Made(m, k)
        Rounded(d, c, k) ==
            Carried(IF c > 0 \/ (c = 0 /\ BDigit(d.q, 1) % 2 = 1)
                    THEN BAdd(d.q, <<1>>) ELSE d.q, k)
        Divided(d, den, k) == Rounded(d, BCmp(BDouble(d.r), den), k)
        Scaled(num, den, k) == Divided(BDivMod(num, den), den, k)
        At(k) == Scaled(BShl(p, 0 - k), BShl(q, k), k)
    IN  At(BLog2(p, BShl(q, DBL_MANT_DIG - 1), DBL_MIN_EXP2, DBL_MAX_EXP2 + 1))

\* the digits that end with a digit rounded up: trailing nines go and the
\* digit before them is raised; digits of nines alone become 1 with the
\* decimal point one place further
RoundOff(digits, decpt) ==
    LET len == Len(digits)
        z == CHOOSE z \in 0..len :
                /\ \A u \in 1..z : digits[len + 1 - u] = 9
                /\ z = len \/ digits[len - z] # 9
        n == len - z
    IN  IF n = 0 THEN [digits |-> <<1>>, decpt |-> decpt + 1]
        ELSE [digits |-> SubSeq(digits, 1, n - 1) \o <<digits[n] + 1>>,
              decpt |-> decpt]

\* the digit loop of repr: st.r / s is what is left of the value, st.mlo / s
\* and st.mhi / s are the distances to the doubles below and above halved,
\* st.digits the digits made so far; even says that the mantissa is even
\* (the halfway points then read back as this double)
RECURSIVE ShortestDigits(_, _, _, _)
ShortestDigits(st, s, even, decpt) ==
    LET Same(dig) == [digits |-> Append(st.digits, dig), decpt |-> decpt]
        Up(dig) == IF dig = 9 THEN RoundOff(Append(st.digits, 9), decpt)
                   ELSE Same(dig + 1)
        Last(dig, b, j, j1, j2) ==
            IF j1 = 0 /\ even
            THEN IF dig = 9 \/ j > 0 THEN "up" ELSE "same"
            ELSE IF j < 0 \/ (j = 0 /\ even)
            THEN IF b # <<>> /\ j1 > 0 /\ (j2 > 0 \/ (j2 = 0 /\ dig % 2 = 1))
                 THEN "up" ELSE "same"
            ELSE IF j1 > 0 THEN "up"
            ELSE "more"
        Step(x, last) ==
            CASE last = "up" -> Up(x.q)
              [] last = "same" -> Same(x.q)
              [] last = "more" ->
                    ShortestDigits([r |-> BTimes10(x.r, 1),
                                    mlo |-> BTimes10(st.mlo, 1),
                                    mhi |-> BTimes10(st.mhi, 1),
                                    digits |-> Append(st.digits, x.q)],
                                   s, even, decpt)
        Digit(x) ==
            Step(x, Last(x.q, x.r, BCmp(x.r, st.mlo),
                         BCmp(BAdd(x.r, st.mhi), s), BCmp(BDouble(x.r), s)))
    IN  Digit(BQuoRem(st.r, s))

\* repr of the double m * 2^k, m > 0: its shortest digits and the place of
\* the decimal point after the first decpt of them
DoubleDigits(m, k) ==
    LET Digits(r, s, mlo, mhi, decpt) ==
            ShortestDigits([r |-> BTimes10(r, 1 - decpt),
                            mlo |-> BTimes10(mlo, 1 - decpt),
                            mhi |-> BTimes10(mhi, 1 - decpt),
                            digits |-> <<>>],
                           BTimes10(s, decpt - 1), BDigit(m, 1) % 2 = 0, decpt)
        Placed(r, s, mlo, mhi, n) ==
            Digits(r, s, mlo, mhi,
                   IF BCmp(BTimes10(r, 0 - n), BTimes10(s, n)) >= 0
                   THEN n + 1 ELSE n)
        Sized(r, s, mlo, mhi) == Placed(r, s, mlo, mhi, Len(r) - Len(s))
        Widened(w, mlo) ==
            Sized(BShl(m, (IF k > 0 THEN k ELSE 0) + 1 + w),
                  BShl(<<1>>, (IF k < 0 THEN 0 - k ELSE 0) + 1 + w),
                  mlo, BShl(mlo, w))
    IN  Widened(IF m = BShl(<<1>>, DBL_MANT_DIG - 1) /\ k > DBL_MIN_EXP2
                THEN 1 ELSE 0,
                BShl(<<1>>, IF k > 0 THEN k ELSE 0))

\* str.lower of the letters float() looks at
Lower(c) ==
    CASE c = "I" -> "i" [] c = "N" -> "n" [] c = "F" -> "f" [] c = "T" -> "t"
      [] c = "Y" -> "y" [] c = "A" -> "a" [] c = "E" -> "e" [] OTHER -> c

\* the exponent float() takes for every larger one, and for one of more
\* than 9 digits after its leading zeros
MAX_ABS_EXP == 1100000000

\* the most digits after the leading zeros, and the most digits of the
\* fraction, of a literal float() accepts
MAX_DIGITS == 1000000000

\* float(s) as far as a literal decides it: the kind (inf, nan or a
\* number), the sign, the digits of the number without leading and
\* trailing zeros and the place decpt of its decimal point (the number is
\* 0.digits * 10^decpt, and 0 without digits); ValueError for what is no
\* literal
PyFloatLiteral(s) ==
    LET Named(kind, neg) ==
            [exc |-> NoExc, kind |-> kind, neg |-> neg, digits |-> <<>>,
             decpt |-> 0]
        Counted(neg, digits, decpt) ==
            [exc |-> NoExc, kind |-> "number", neg |-> neg, digits |-> digits,
             decpt |-> IF digits = <<>> THEN 0 ELSE decpt]
        Number(neg, lead, fd, exp) ==
            IF Len(lead) > MAX_DIGITS \/ Len(fd) > MAX_DIGITS
            THEN [exc |-> "ValueError", kind |-> "none", neg |-> neg,
                  digits |-> <<>>, decpt |-> 0]
            ELSE Counted(neg, RStrip(lead, DecimalDigits[1]),
                         Len(lead) - Len(fd) + exp)
        Exponent(exneg, ed) ==
            (IF exneg THEN 0 - 1 ELSE 1)
                * (IF Len(ed) > 9 THEN MAX_ABS_EXP ELSE DigitsValue(ed))
        Parts(neg, ip, fp, hasexp, exneg, exdigits) ==
            IF /\ ip = <<>> \/ DigitPart(ip)
               /\ fp = <<>> \/ DigitPart(fp)
               /\ ip # <<>> \/ fp # <<>>
               /\ hasexp => DigitPart(exdigits)
            THEN Number(neg,
                        LStrip(SelectSeq(ip, NotUnderscore)
                                  \o SelectSeq(fp, NotUnderscore),
                               DecimalDigits[1]),
                        SelectSeq(fp, NotUnderscore),
                        Exponent(exneg,
                                 LStrip(SelectSeq(exdigits, NotUnderscore),
                                        DecimalDigits[1])))
            ELSE [exc |-> "ValueError", kind |-> "none", neg |-> neg,
                  digits |-> <<>>, decpt |-> 0]
        Mantissa(neg, p, hasexp, ex) ==
            Parts(neg, p[1], IF Len(p) = 2 THEN p[2] ELSE <<>>, hasexp,
                  ex # <<>> /\ Head(ex) = "-",
                  IF ex # <<>> /\ Head(ex) \in {"+", "-"} THEN Tail(ex) ELSE ex)
        Split(neg, u, epos) ==
            Mantissa(neg,
                     PySplit(IF epos = 0 THEN u ELSE SubSeq(u, 1, epos - 1),
                             <<".">>, 1),
                     epos # 0,
                     IF epos = 0 THEN <<>> ELSE SubSeq(u, epos + 1, Len(u)))
        Lowered(neg, u, low) ==
            IF low \in {<<"i","n","f">>, <<"i","n","f","i","n","i","t","y">>}
            THEN Named("inf", neg)
            ELSE IF low = <<"n","a","n">> THEN Named("nan", neg)
            ELSE Split(neg, u, PyFind(low, <<"e">>, 1))
        Unsigned(neg, u) == Lowered(neg, u, [i \in 1..Len(u) |-> Lower(u[i])])
        Stripped(t) ==
            IF t # <<>> /\ Head(t) \in {"+", "-"}
            THEN Unsigned(Head(t) = "-", Tail(t))
            ELSE Unsigned(FALSE, t)
    IN  Stripped(PyStrip(s, NumberSpace))

\* decimal exponents beyond which a literal is above every double, or
\* rounds to zero
MaxDecpt == 310

MinDecpt == 0 - 330

\* the double a number literal rounds to, by the digits repr gives it:
\* kind is inf, zero or number
PyFloat(digits, decpt) ==
    LET Number(g) ==
            [kind |-> "number", digits |-> g.digits, decpt |-> g.decpt]
        Rounded(d) ==
            IF d.inf THEN [kind |-> "inf", digits |-> <<>>, decpt |-> 0]
            ELSE IF d.m = <<>>
            THEN [kind |-> "zero", digits |-> <<>>, decpt |-> 0]
            ELSE Number(DoubleDigits(d.m, d.k))
        Ratio(e) ==
            Rounded(NearestDouble(BTimes10(BNum(digits), e),
                                  BTimes10(<<1>>, 0 - e)))
    IN  IF digits = <<>> \/ decpt < MinDecpt
        THEN [kind |-> "zero", digits |-> <<>>, decpt |-> 0]
        ELSE IF decpt > MaxDecpt
        THEN [kind |-> "inf", digits |-> <<>>, decpt |-> 0]
        ELSE IF Len(digits) <= DBL_DIG /\ decpt > 0 - 300 /\ decpt < 300
        THEN [kind |-> "number",
              digits |-> [i \in 1..Len(digits) |-> DigitVal(digits[i])],
              decpt |-> decpt]
        ELSE Ratio(decpt - Len(digits))

\* n zeros
Zeros(n) == [i \in 1..n |-> "0"]

\* repr of a finite double other than zero from its shortest digits:
\* float_repr_style 'short', exponent notation for decpt outside -3..16
FloatRepr(digits, decpt) ==
    LET ds == [i \in 1..Len(digits) |->
                 <<"0", "1", "2", "3", "4", "5", "6", "7", "8", "9">>[digits[i] + 1]]
        n == Len(ds)
        x == decpt - 1
        xs == IntStr(IF x < 0 THEN 0 - x ELSE x)
    IN  IF decpt <= 0 - 4 \/ decpt > 16
        THEN <<ds[1]>> \o (IF n > 1 THEN <<".">> \o Tail(ds) ELSE <<>>)
             \o <<"e", IF x < 0 THEN "-" ELSE "+">>
             \o (IF Len(xs) < 2 THEN <<"0">> ELSE <<>>) \o xs
        ELSE IF decpt <= 0
        THEN <<"0", ".">> \o Zeros(0 - decpt) \o ds
        ELSE IF decpt >= n
        THEN ds \o Zeros(decpt - n) \o <<".", "0">>
        ELSE SubSeq(ds, 1, decpt) \o <<".">> \o SubSeq(ds, decpt + 1, n)

\* str(float(s))
PyFloatStr(s) ==
    LET Sign(l) == IF l.neg THEN <<"-">> ELSE <<>>
        Number(l, f) ==
            CASE f.kind = "inf" -> Sign(l) \o <<"i", "n", "f">>
              [] f.kind = "zero" -> Sign(l) \o <<"0", ".", "0">>
              [] OTHER -> Sign(l) \o FloatRepr(f.digits, f.decpt)
        Str(l) ==
            IF l.exc # NoExc THEN [exc |-> l.exc, val |-> <<>>]
            ELSE [exc |-> NoExc,
                  val |-> CASE l.kind = "nan" -> <<"n", "a", "n">>
                            [] l.kind = "inf" -> Sign(l) \o <<"i", "n", "f">>
                            [] OTHER -> Number(l, PyFloat(l.digits, l.decpt))]
    IN  Str(PyFloatLiteral(s))

\* ------------------------------------------------------------------------
\* Track aggregator (TrackInfoProcessor).  The operators take and return w,
\* the fields of the processor together with the effects it has on its
\* collaborators: tracks (the put_track calls, in order), no_of_titles (the
\* field written by database_updater) and exc (the exception it raised).
\* ------------------------------------------------------------------------

SOURCE == <<"M","a","k","e","M","K","V">>

\* str(0.0), the initial value of fps
FpsDefault == <<"0", ".", "0">>

\* convert_to_seconds(hms_value)
convert_to_seconds(hms_value) ==
    LET p == PySplit(hms_value, <<":">>, 0 - 1)
    IN  IF Len(p) # 3 THEN [exc |-> "ValueError", val |-> 0]
        ELSE LET hour == PyInt(p[1])
                 mins == PyInt(p[2])
                 secs == PyInt(p[3])
                 e == FirstExc(<<hour, mins, secs>>)
             IN  IF e # NoExc THEN [exc |-> e, val |-> 0]
                 ELSE [exc |-> NoExc,
                       val |-> hour.val * 3600 + mins.val * 60 + secs.val]

\* the arguments of one utils.put_track call
PutTrack(w) ==
    [track_id |-> w.track_id[1], seconds |-> w.seconds, aspect |-> w.aspect,
     fps |-> w.fps, forced |-> FALSE, source |-> SOURCE,
     filename |-> w.filename]

\* mutant of add_track: a track id of 0 is taken for no track
add_track_ZeroIsNone(w) ==
    IF w.track_id = None \/ w.track_id = Some(0) THEN w
    ELSE [w EXCEPT !.tracks = Append(@, PutTrack(w)),
                   !.seconds = 0,
                   !.aspect = <<>>,
                   !.fps = FpsDefault,
                   !.filename = <<>>]

\* mutant of add_track: the accumulator is not reset after the commit
add_track_NoReset(w) ==
    IF w.track_id = None THEN w
    ELSE [w EXCEPT !.tracks = Append(@, PutTrack(w))]

\* TrackInfoProcessor._add_track
add_track(w) ==
    IF w.track_id = None THEN w
    ELSE [w EXCEPT !.tracks = Append(@, PutTrack(w)),
                   !.seconds = 0,
                   !.aspect = <<>>,
                   !.fps = FpsDefault,
                   !.filename = <<>>]

\* TrackInfoProcessor._handle_sinfo
handle_sinfo(w, message) ==
    IF message.id = StreamID_TYPE
    THEN [w EXCEPT !.stream_type = Some(message.code)]
    ELSE IF w.stream_type = Some(MAKEMKV_STREAM_CODE_TYPE_VIDEO)
    THEN IF message.id = StreamID_ASPECT
         THEN [w EXCEPT !.aspect = PyStrip(message.value, Whitespace)]
         ELSE IF message.id = StreamID_FPS
         THEN LET Fps(f) ==
                      IF f.exc # NoExc THEN [w EXCEPT !.exc = f.exc]
                      ELSE [w EXCEPT !.fps = f.val]
                  Word(word) ==
                      IF word = <<>> THEN [w EXCEPT !.exc = "IndexError"]
                      ELSE Fps(PyFloatStr(word))
              IN  Word(FirstWord(message.value))
         ELSE w
    ELSE w

\* TrackInfoProcessor._handle_tinfo
handle_tinfo(w, message) ==
    IF message.id = TrackID_FILENAME
    THEN LET p == PySplit(message.value, <<Quote>>, 0 - 1)
         IN  [w EXCEPT !.filename = IF Len(p) >= 2 THEN p[2]
                                    ELSE message.value]
    ELSE IF message.id = TrackID_DURATION
    THEN LET s == convert_to_seconds(PyStrip(message.value, Whitespace))
         IN  IF s.exc # NoExc THEN [w EXCEPT !.exc = s.exc]
             ELSE [w EXCEPT !.seconds = s.val]
    ELSE w

\* mutant of handle_titles: the title count also closes the current title
handle_titles_Commits(w, message) ==
    [w EXCEPT !.no_of_titles = Some(message.count),
              !.tracks = IF w.track_id = None THEN @ ELSE Append(@, PutTrack(w)),
              !.track_id = None]

\* TrackInfoProcessor._handle_titles
handle_titles(w, message) ==
    [w EXCEPT !.no_of_titles = Some(message.count)]

\* mutant of NewTrack: every record of a title closes the track before it
NewTrack_Always(track_id, tid) == track_id # None

\* the test that a record of another title has arrived
NewTrack(track_id, tid) == track_id # None /\ Some(tid) # track_id

\* TrackInfoProcessor._handle_track_or_stream_info
handle_track_or_stream_info(w, message) ==
    LET w1 == IF NewTrack(w.track_id, message.tid) THEN add_track(w) ELSE w
        w2 == [w1 EXCEPT !.track_id = Some(message.tid)]
    IN  IF message.cls = "SInfo" THEN handle_sinfo(w2, message)
        ELSE handle_tinfo(w2, message)

\* TrackInfoProcessor._process_message
process_message(w, message) ==
    IF message.cls \in {"TInfo", "SInfo"}
    THEN handle_track_or_stream_info(w, message)
    ELSE IF message.cls = "Titles" THEN handle_titles(w, message)
    ELSE w

\* ------------------------------------------------------------------------
\* The output of the child process
\* ------------------------------------------------------------------------

\* exit statuses of makemkvcon
ExitCodes == {0, 1}

LineSep == "\n"

\* The lines of output used by the model, each as the child writes it
\* (without its line terminator).

\* junk
Line_NoColon ==
    <<"j","u","n","k">>

\* XX:1
Line_UnknownTag ==
    <<"X","X",":","1">>

\* TINFO:0,27
Line_TinfoShort ==
    <<"T","I","N","F","O",":","0",",","2","7">>

\* TCOUNT:x
Line_TcountBad ==
    <<"T","C","O","U","N","T",":","x">>

\* TCOUNT:2
Line_Tcount ==
    <<"T","C","O","U","N","T",":","2">>

\* CINFO:1,0,"d"
Line_Cinfo ==
    <<"C","I","N","F","O",":","1",",","0",",","\"","d","\"">>

\* MSG:1005,0,0,"m","t"
Line_Msg ==
    <<"M","S","G",":","1","0","0","5",",","0",",","0",",","\"","m","\"",",","\"","t","\"">>

\* MSG:5055,0,1,"m","t","p"
Line_MsgError ==
    <<"M","S","G",":","5","0","5","5",",","0",",","1",",","\"","m","\"",",","\"","t","\"",",","\"","p","\"">>

\* MSG:5055,0,0,"m","t"
Line_MsgErrorBare ==
    <<"M","S","G",":","5","0","5","5",",","0",",","0",",","\"","m","\"",",","\"","t","\"">>

\* DRV:0,2,999,1,"n","d","m"
Line_Drv ==
    <<"D","R","V",":","0",",","2",",","9","9","9",",","1",",","\"","n","\"",",","\"","d","\"",",","\"","m","\"">>

\* TINFO:0,27,0,"a.mkv"
Line_T0Filename ==
    <<"T","I","N","F","O",":","0",",","2","7",",","0",",","\"","a",".","m","k","v","\"">>

\* TINFO:0,9,0,"0:01:05"
Line_T0Duration ==
    <<"T","I","N","F","O",":","0",",","9",",","0",",","\"","0",":","0","1",":","0","5","\"">>

\* TINFO:0,9,0,"1:05"
Line_T0DurationBad ==
    <<"T","I","N","F","O",":","0",",","9",",","0",",","\"","1",":","0","5","\"">>

\* TINFO:1,9,0,"0:02:00"
Line_T1Duration ==
    <<"T","I","N","F","O",":","1",",","9",",","0",",","\"","0",":","0","2",":",
      "0","0","\"">>

\* TINFO:1,2,0,"x"
Line_T1Other ==
    <<"T","I","N","F","O",":","1",",","2",",","0",",","\"","x","\"">>

\* SINFO:0,0,1,6201,"V"
Line_T0S0Video ==
    <<"S","I","N","F","O",":","0",",","0",",","1",",","6","2","0","1",",","\"","V","\"">>

\* SINFO:0,1,1,6202,"A"
Line_T0S1Audio ==
    <<"S","I","N","F","O",":","0",",","1",",","1",",","6","2","0","2",",","\"","A","\"">>

\* SINFO:0,0,20,0,"16:9"
Line_T0S0Aspect ==
    <<"S","I","N","F","O",":","0",",","0",",","2","0",",","0",",","\"","1","6",":","9","\"">>

\* SINFO:0,1,20,0,"4:3"
Line_T0S1Aspect ==
    <<"S","I","N","F","O",":","0",",","1",",","2","0",",","0",",","\"","4",":","3","\"">>

\* SINFO:1,0,21,0,"25 (25/1)"
Line_T1S0Fps ==
    <<"S","I","N","F","O",":","1",",","0",",","2","1",",","0",",","\"","2","5"," ","(","2","5","/","1",")","\"">>

\* lines the child may write in a run() that its caller consumes directly
RunLines ==
    {Line_NoColon,
     Line_UnknownTag,
     Line_TinfoShort,
     Line_TcountBad,
     Line_Tcount,
     Line_Cinfo,
     Line_Msg,
     Line_MsgError,
     Line_MsgErrorBare,
     Line_Drv}

\* lines the child may write in an info query of the track aggregator
InfoLines ==
    {Line_T0Filename,
     Line_T0Duration,
     Line_T0DurationBad,
     Line_T1Other,
     Line_T0S0Video,
     Line_T0S1Audio,
     Line_T0S0Aspect,
     Line_T0S1Aspect,
     Line_T1S0Fps,
     Line_Tcount,
     Line_Cinfo,
     Line_NoColon}

\* DRV:6,256,999,0,"","",""
Line_DrvAbsent ==
    <<"D","R","V",":","6",",","2","5","6",",","9","9","9",",","0",",","\"","\"",",","\"","\"",",","\"","\"">>

\* DRV:1,2,999,1,"n","d","x"
Line_DrvOther ==
    <<"D","R","V",":","1",",","2",",","9","9","9",",","1",",","\"","n","\"",",","\"","d","\"",",","\"","x","\"">>

\* what the drive scan of makemkv may print: the drive of the job, a drive
\* that is not attached, another drive, a line whose ValueError run() does
\* not catch
FindLines ==
    {Line_Drv,
     Line_DrvAbsent,
     Line_DrvOther,
     Line_TcountBad}

\* lines the child may write in the drive scan of get_drives: two drives, a
\* line that is buffered, a line whose ValueError run() does not catch
DriveLines ==
    {Line_Drv,
     Line_DrvAbsent,
     Line_NoColon,
     Line_TcountBad}

\* what the info query of makemkv_mkv may print: the title count, durations
\* of 65 and 120 seconds, a title without a duration, a duration that does
\* not convert, a title count that is no number
MkvInfoLines ==
    {Line_Tcount,
     Line_T0Duration,
     Line_T1Duration,
     Line_T1Other,
     Line_T0DurationBad,
     Line_TcountBad}

\* what a rip may print: a message, an error message, a line that is
\* buffered, a line whose ValueError run() does not catch
RipLines ==
    {Line_Msg,
     Line_MsgError,
     Line_NoColon,
     Line_TcountBad}

\* the masks run() is called with
SelectChoices ==
    { {"MSG"}, {"DRV"}, {"MSG", "TCOUNT", "DRV"},
      {"CINFO", "SINFO", "TCOUNT", "TINFO"} }

\* output_types of process_messages
InfoSelect == {"CINFO", "SINFO", "TCOUNT", "TINFO"}

\* ------------------------------------------------------------------------
\* Lines as makemkvcon writes them, built from their fields
\* ------------------------------------------------------------------------

\* a text field between double quotes
Quoted(s) == <<Quote>> \o s \o <<Quote>>

\* the characters of a tag
TagChars(tag) ==
    CASE tag = "DRV" -> <<"D","R","V">>
      [] tag = "MSG" -> <<"M","S","G">>
      [] tag = "CINFO" -> <<"C","I","N","F","O">>
      [] tag = "SINFO" -> <<"S","I","N","F","O">>
      [] tag = "TCOUNT" -> <<"T","C","O","U","N","T">>
      [] tag = "TINFO" -> <<"T","I","N","F","O">>
      [] tag = "PRGV" -> <<"P","R","G","V">>
      [] tag = "PRGC" -> <<"P","R","G","C">>
      [] tag = "PRGT" -> <<"P","R","G","T">>

\* the fields of a payload separated by commas
RECURSIVE JoinComma(_)
JoinComma(fields) ==
    IF fields = <<>> THEN <<>>
    ELSE IF Len(fields) = 1 THEN fields[1]
    ELSE fields[1] \o <<",">> \o JoinComma(Tail(fields))

\* `TAG:int,...,"text",...`: the line of a record with the numeric fields
\* ints followed by the text fields strs
WireLine(tag, ints, strs) ==
    TagChars(tag) \o <<":">>
    \o JoinComma([i \in 1..Len(ints) |-> IntStr(ints[i])]
                 \o [i \in 1..Len(strs) |-> Quoted(strs[i])])

\* Largest number of parameters that follow the template of a message.
MaxParams == 2

\* message codes: the four error codes, the six log-only codes, and others
MessageCodes ==
    {MessageID_READ_ERROR, MessageID_WRITE_ERROR} \cup SPECIAL_ERROR_CODES
    \cup LOG_ONLY_CODES \cup {0, 1005, 3007}

\* first parameters of a message: the error texts the checker knows, and
\* texts it does not know
ErrorTexts ==
    {ERROR_MESSAGE_OPERATION_RESULT, ERROR_MESSAGE_TRAY_OPEN,
     ERROR_MESSAGE_MEDIUM_ERROR, ERROR_MESSAGE_HARDWARE_ERROR,
     ERROR_MESSAGE_POSIX, <<"M","E","D","I","U","M"," ","E","R","R","O","R">>,
     <<"x">>}

\* the fields of a message after its text: nothing, the template alone, or
\* the template and parameters
SprintfLists ==
    {<<>>, <<<<"%","1">>>>}
    \cup {<<<<"%","1">>, p>> \o [i \in 1..k |-> <<"d">>] :
             p \in ErrorTexts, k \in 0..(MaxParams - 1)}

WireCall(tag, ints, strs) ==
    [fn |-> "parse_line", tag |-> tag, ints |-> ints, strs |-> strs,
     line |-> WireLine(tag, ints, strs)]

\* MSG:code,flags,count,message,format,param0,param1,...
MsgCalls ==
    {WireCall("MSG", <<code, 0, IF Len(s) = 0 THEN 0 ELSE Len(s) - 1>>,
              <<<<"m">>>> \o s) :
        code \in MessageCodes, s \in SprintfLists}

\* values of the flags and visible fields of a drive line: the documented
\* ones and others
DriveFlags == {0, 1, 12, 28, 2, 13, 999}

DriveVisibles ==
    {DriveVisible_EMPTY, DriveVisible_OPEN, DriveVisible_LOADED,
     DriveVisible_LOADING, DriveVisible_NOT_ATTACHED, 4, 255, 257}

\* DRV:index,visible,enabled,flags,drive name,disc name,mount
DrvCalls ==
    {WireCall("DRV", <<0, v, MAKEMKV_UNKNOWN_DRV, f>>,
              <<<<"n">>, <<"d">>, <<"m">>>>) :
        v \in DriveVisibles, f \in DriveFlags}
    \cup {WireCall("DRV", <<6, v, MAKEMKV_UNKNOWN_DRV, f>>,
                   <<<<>>, <<>>, <<>>>>) :
        v \in DriveVisibles, f \in DriveFlags}

\* values of the numeric and of the text fields of the other lines; the
\* last text carries its own double quotes inside the quotes of the field
FieldInts == {0, 27}

FieldTexts == {<<"x">>, <<"a", ",", "b">>, <<Quote, "a", Quote>>}

\* TCOUNT:count  CINFO:id,code,value  TINFO:tid,id,code,value
\* SINFO:tid,sid,id,code,value  PRGV:current,total,max  PRGC|PRGT:code,id,name
InfoCalls ==
    {WireCall("TCOUNT", <<a>>, <<>>) : a \in FieldInts}
    \cup {WireCall("CINFO", <<a, b>>, <<v>>) :
             a \in FieldInts, b \in FieldInts, v \in FieldTexts}
    \cup {WireCall("TINFO", <<a, b, c>>, <<v>>) :
             a \in FieldInts, b \in {1, 2}, c \in {3, 4}, v \in FieldTexts}
    \cup {WireCall("SINFO", <<a, b, c, d>>, <<v>>) :
             a \in FieldInts, b \in {1, 2}, c \in {3, 4}, d \in {5, 6},
             v \in FieldTexts}
    \cup {WireCall("PRGV", <<a, b, 65536>>, <<>>) :
             a \in FieldInts, b \in {1, 2}}
    \cup {WireCall(tag, <<a, b>>, <<v>>) :
             tag \in {"PRGC", "PRGT"}, a \in FieldInts, b \in {1, 2},
             v \in FieldTexts}

\* the direct calls of parse_line
ParseLineCalls == MsgCalls \cup DrvCalls \cup InfoCalls

\* payloads parse_content is called on directly
\* 0
Content_Count ==
    <<"0">>

\* 1,26,0,"155,156,157"
Content_Commas ==
    <<"1",",","2","6",",","0",",","\"","1","5","5",",","1","5","6",",","1","5","7","\"">>

\* 6,256,999,0,"n","d","m"
Content_Drive ==
    <<"6",",","2","5","6",",","9","9","9",",","0",",","\"","n","\"",",","\"","d","\"",",","\"","m","\"">>

\* 0,27,0,""a.mkv""
Content_Doubled ==
    <<"0",",","2","7",",","0",",","\"","\"","a",".","m","k","v","\"","\"">>

\* 1,0,""
Content_Empty ==
    <<"1",",","0",",","\"","\"">>

\* 0,9,0,"a""
Content_TwoAtEnd ==
    <<"0",",","9",",","0",",","\"","a","\"","\"">>

Contents ==
    {Content_Count, Content_Commas, Content_Drive, Content_Doubled,
     Content_Empty, Content_TwoAtEnd}

\* Largest num_header parse_content is called with.
MaxHeader == 4

\* the values of num_message: -1 for open-ended
NumMessages == {0 - 1, 0, 1, 2}

\* the direct calls of parse_content
ParseContentCalls ==
    {[fn |-> "parse_content", content |-> c, num_header |-> n,
      num_message |-> m] :
        c \in Contents, n \in 0..MaxHeader, m \in NumMessages}

\* lines parse_line is called on directly
DecodeLines == {c.line : c \in ParseLineCalls}

\* the flags and visibility codes of the drives of a scan: the documented
\* ones and others
ScanFlags == {0, 1, 12, 28, 999}

ScanVisibles ==
    {DriveVisible_EMPTY, DriveVisible_OPEN, DriveVisible_LOADED,
     DriveVisible_LOADING, DriveVisible_NOT_ATTACHED, 4, 257}

\* the lines of a scan: a drive line for every visibility code and flags
\* value, and a line whose ValueError run() does not catch
ScanLines ==
    {WireLine("DRV", <<0, v, MAKEMKV_UNKNOWN_DRV, f>>,
              <<<<"n">>, <<"d">>, <<"m">>>>) :
        v \in ScanVisibles, f \in ScanFlags}
    \cup {Line_TcountBad}

\* ------------------------------------------------------------------------
\* State
\* ------------------------------------------------------------------------

VARIABLES
    caller,         \* who consumes run(): "direct" (collections.deque(run(..))),
                    \* "tracks" (TrackInfoProcessor.process_messages) or
                    \* "drives" (get_drives); "call" for a direct call of
                    \* parse_line or parse_content
    select,         \* run's argument select: the set of OutputType members
    pc,             \* position of the call
    stdout,         \* the lines read from proc.stdout so far, as written
    returncode,     \* proc.returncode: None until the process is waited for
    buffer,         \* run's list buffer of unparsed lines
    yielded,        \* the records run has yielded, in order
    raised,         \* the exception the call ended with, NoExc when none
    log,            \* the logging calls of MakeMKVOutputChecker, in order
    status,         \* job.status
    track_id,       \* TrackInfoProcessor.track_id
    seconds,        \* TrackInfoProcessor.seconds
    aspect,         \* TrackInfoProcessor.aspect
    fps,            \* str(TrackInfoProcessor.fps)
    filename,       \* TrackInfoProcessor.filename
    stream_type,    \* TrackInfoProcessor.stream_type
    tracks,         \* the utils.put_track calls made, in order
    no_of_titles,   \* job.no_of_titles as written by utils.database_updater
    drives,         \* the drives get_drives has yielded, in order
    max_processes,  \* job.config.MAX_CONCURRENT_MAKEMKVINFO
    running,        \* makemkvcon processes running that neither this job nor
                    \* the peer job started
    peer,           \* position of another job inside its own makemkv_info
    trace,          \* the waits, sleeps and process starts of makemkv_info
    call,           \* the arguments of the direct call, None when none
    ret,            \* what the direct call returned, None before it does
    live,           \* the child processes of this job started and not yet
                    \* waited for
    config,         \* what makemkv reads of the job and the machine:
                    \* job.config, the drive mode of job.devpath,
                    \* job.disctype, job.drive.mdisc at the call and
                    \* whether the raw paths exist
    phase,          \* position of makemkv and makemkv_mkv, "none" outside
    manual_start,   \* job.manual_start as stored in the database
    wait_i,         \* the loop variable i of manual_wait, 0 outside the loop
    checks,         \* the values of job.manual_start manual_wait has read
    notices,        \* the notify calls made, in order
    user_ready,     \* what manual_wait returned, None before it does
    process,        \* Track.process of each row of job.tracks
    cursor,         \* how many rows the loop of process_single_tracks took
    ripped,         \* the rip commands started, by what they rip
    mkv_rawpath,    \* the local rawpath of makemkv_mkv, None outside
    result          \* what makemkv returned, None before it does

runVars == <<caller, select, pc, stdout, returncode, buffer, yielded, raised>>

procVars == <<track_id, seconds, aspect, fps, filename, stream_type, tracks,
              no_of_titles>>

envVars == <<max_processes, running, peer>>

callVars == <<call, ret>>

ripVars == <<config, phase, manual_start, wait_i, checks, notices, user_ready,
             process, cursor, ripped, mkv_rawpath, result>>

\* what the steps outside run() and makemkv leave alone
quietVars == <<ripVars, live>>

vars == <<caller, select, pc, stdout, returncode, buffer, yielded, raised,
          log, status, track_id, seconds, aspect, fps, filename, stream_type,
          tracks, no_of_titles, drives, max_processes, running, peer, trace,
          call, ret, live, config, phase, manual_start, wait_i, checks,
          notices, user_ready, process, cursor, ripped, mkv_rawpath, result>>

\* the processor and its collaborators as the record the operators work on
W ==
    [track_id |-> track_id, seconds |-> seconds, aspect |-> aspect,
     fps |-> fps, filename |-> filename, stream_type |-> stream_type,
     tracks |-> tracks, no_of_titles |-> no_of_titles, exc |-> NoExc]

\* the assignment of the fields of w to the processor's variables
SetW(w) ==
    /\ track_id' = w.track_id
    /\ seconds' = w.seconds
    /\ aspect' = w.aspect
    /\ fps' = w.fps
    /\ filename' = w.filename
    /\ stream_type' = w.stream_type
    /\ tracks' = w.tracks
    /\ no_of_titles' = w.no_of_titles

\* the state before the call, whoever makes it: TrackInfoProcessor.__init__,
\* run() before its first statement, no checker has logged
InitCommon ==
    /\ pc = "start"
    /\ stdout = <<>>
    /\ returncode = None
    /\ buffer = <<>>
    /\ yielded = <<>>
    /\ raised = NoExc
    /\ log = <<>>
    /\ status = "ACTIVE"
    /\ track_id = None
    /\ seconds = 0
    /\ aspect = <<>>
    /\ fps = FpsDefault
    /\ filename = <<>>
    /\ stream_type = None
    /\ tracks = <<>>
    /\ no_of_titles = None
    /\ drives = <<>>
    /\ trace = <<>>
    /\ ret = None
    /\ live = 0
    /\ manual_start = FALSE
    /\ wait_i = 0
    /\ checks = <<>>
    /\ notices = <<>>
    /\ user_ready = None
    /\ process = <<>>
    /\ cursor = 0
    /\ ripped = <<>>
    /\ result = None

\* job.config as far as makemkv_mkv reads it, with the drive mode that
\* utils.get_drive_mode returns for the drive of the job; the job is a DVD
\* ripped with RIPMETHOD mkv, its drive has the MakeMKV disc number 0 and
\* the raw path does not exist
Config(mode, mainfeature, minlength, maxlength) ==
    [mode |-> mode, MAINFEATURE |-> mainfeature, MINLENGTH |-> minlength,
     MAXLENGTH |-> maxlength, RIPMETHOD |-> "mkv", disctype |-> "dvd",
     mdisc |-> Some(0), raw |-> "free"]

\* the call is not made by makemkv
NoRip ==
    /\ config = Config("auto", FALSE, 0, 0)
    /\ phase = "none"
    /\ mkv_rawpath = None

\* A job alone on the machine with throttling disabled: a rip or backup that
\* consumes run() directly, or the info query of the track aggregator.
Init ==
    /\ InitCommon
    /\ caller \in {"direct", "tracks"}
    /\ select \in IF caller = "tracks" THEN {InfoSelect} ELSE SelectChoices
    /\ max_processes = 0
    /\ running = 0
    /\ peer = "idle"
    /\ call = None
    /\ NoRip

\* ------------------------------------------------------------------------
\* run(options, select)
\* ------------------------------------------------------------------------

\* except MakeMkvParserError: the exceptions the loop of run() catches
Caught(exc) == exc = "MakeMkvParserError"

\* mutant of Selected: the mask is not consulted
Selected_NoMask(msg_type, sel) == TRUE

\* if msg_type in select
Selected(msg_type, sel) == msg_type \in sel

\* the end of run() once the process has been waited for: the exception it
\* raises, NoExc when it exits gracefully
RunResult(rc, buf) ==
    IF Truthy(rc) THEN "MakeMkvRuntimeError"
    ELSE IF buf # <<>> THEN "MakeMkvRuntimeError"
    ELSE NoExc

\* parse_line on every line of the model, computed once
AllLines ==
    RunLines \cup InfoLines \cup DriveLines \cup DecodeLines
             \cup MkvInfoLines \cup RipLines \cup FindLines

ParsedLine == [line \in AllLines |-> parse_line(line)]

\* the consumers that reach run() through makemkv_info
InfoCallers == {"tracks", "drives"}

\* who consumes the run() in progress: makemkv_mkv first has the track
\* aggregator consume an info query and then rips with
\* collections.deque(run(..), maxlen=0)
Consumer ==
    CASE caller = "mkv" ->
             (CASE phase = "prep" -> "none"
                [] phase = "scan" -> "drives"
                [] phase = "info" -> "tracks"
                [] OTHER -> "direct")
      [] caller = "scan" -> "drives"
      [] OTHER -> caller

\* the lines the child may write, and how many
Pool ==
    CASE caller = "mkv" ->
             (CASE phase = "scan" -> FindLines
                [] phase = "info" -> MkvInfoLines
                [] OTHER -> RipLines)
      [] caller = "tracks" -> InfoLines
      [] caller = "drives" -> DriveLines
      [] caller = "scan" -> ScanLines
      [] OTHER -> RunLines

LineBound ==
    CASE caller = "mkv" ->
             (CASE phase = "scan" -> MaxFindLines
                [] phase = "info" -> MaxMkvLines
                [] OTHER -> MaxRipLines)
      [] caller = "tracks" -> MaxInfoLines
      [] caller = "drives" -> MaxDriveLines
      [] caller = "scan" -> MaxScanLines
      [] OTHER -> MaxLines

\* the child process of this call is running
ChildAlive ==
    pc \in {"reading", "yielded", "drive_yielded", "abandoned", "unwinding"}

\* the number of makemkvcon processes a poll of the process table counts
Count ==
    running + (IF ChildAlive THEN 1 ELSE 0)
            + (IF peer = "running" THEN 1 ELSE 0)

\* one entry of trace: what makemkv_info did and how many makemkvcon
\* processes were running when it did
Event(ev) == [ev |-> ev, running |-> Count]

\* the generator of makemkv_info was closed by its consumer
Closed == \E i \in 1..Len(trace) : trace[i].ev = "close"

\* subprocess.Popen(cmd, ...): run() starts the child, directly or as the
\* first step of the generator after the pre-wait of makemkv_info.
StartRun ==
    /\ pc = IF Consumer \in InfoCallers THEN "admitted" ELSE "start"
    /\ Consumer \in InfoCallers \cup {"direct"}
    /\ pc' = "reading"
    /\ trace' = Append(trace, Event("popen"))
    /\ live' = live + 1
    /\ UNCHANGED <<caller, select, stdout, returncode, buffer, yielded, raised,
                   log, status, drives>>
    /\ UNCHANGED <<procVars, envVars, callVars, ripVars>>

\* One pass of `for line in proc.stdout`: the child has written l.
ReadLine(l) ==
    /\ pc = "reading"
    /\ Len(stdout) < LineBound
    /\ LET raw == l \o <<LineSep>>
           line == RStrip(raw, {LineSep})
           r == ParsedLine[line]
       IN  /\ stdout' = Append(stdout, raw)
           /\ IF Truthy(returncode)
              THEN /\ buffer' = Append(buffer, line)
                   /\ UNCHANGED <<yielded, pc, raised, returncode, log, live>>
              ELSE
              /\ log' = log \o r.log
              /\ IF Caught(r.exc)
                 THEN /\ buffer' = Append(buffer, line)
                      /\ UNCHANGED <<yielded, pc, raised, returncode, live>>
                 ELSE IF r.exc # NoExc
                 THEN \* the exception reaches the with statement
                      /\ pc' = "unwinding"
                      /\ UNCHANGED <<buffer, yielded, raised, returncode,
                                     live>>
                 ELSE IF Selected(r.msg_type, select)
                 THEN /\ yielded' = Append(yielded, r.data)
                      /\ pc' = IF Consumer \in InfoCallers THEN "yielded"
                               ELSE "reading"
                      /\ UNCHANGED <<buffer, raised, returncode, live>>
                 ELSE UNCHANGED <<buffer, yielded, pc, raised, returncode,
                                  live>>
    /\ UNCHANGED <<caller, select, status, drives, trace>>
    /\ UNCHANGED <<procVars, envVars, callVars, ripVars>>

\* Popen.__exit__ with an exception of parse_line that run() does not
\* catch: it waits until the child has exited, then the exception leaves
\* run().
PopenExit ==
    /\ pc = "unwinding"
    /\ raised' = ParsedLine[RStrip(stdout[Len(stdout)], {LineSep})].exc
    /\ \E rc \in ExitCodes : returncode' = Some(rc)
    /\ live' = live - 1
    /\ pc' = IF Consumer \in InfoCallers THEN "info_finally" ELSE "raised"
    /\ UNCHANGED <<caller, select, stdout, buffer, yielded, log, status,
                   drives, trace>>
    /\ UNCHANGED <<procVars, envVars, callVars, ripVars>>

\* The child closes its output and exits: the loop ends, the process is
\* waited for and run() raises or returns.
EndOfStream ==
    /\ pc = "reading"
    /\ \E rc \in ExitCodes :
          /\ returncode' = Some(rc)
          /\ raised' = RunResult(Some(rc), buffer)
    /\ pc' = IF Consumer \in InfoCallers THEN "info_finally"
             ELSE IF raised' = NoExc THEN "done" ELSE "raised"
    /\ live' = live - 1
    /\ UNCHANGED <<caller, select, stdout, buffer, yielded, log, status,
                   drives, trace>>
    /\ UNCHANGED <<procVars, envVars, callVars, ripVars>>

\* ------------------------------------------------------------------------
\* makemkv_info and its consumers
\* ------------------------------------------------------------------------

\* utils.sleep_check_process("makemkvcon", max, ...): whether a call that
\* counts count running processes returns.  It blocks, polling at a fixed
\* interval, until the count is at or below the ceiling max; a ceiling of 0
\* disables the wait.
sleep_check_process(max, count) == max = 0 \/ count <= max

\* The consumer asks for the first record: makemkv_info runs up to its
\* pre-wait.
StartInfo ==
    /\ pc = "start"
    /\ Consumer \in InfoCallers
    /\ pc' = "pre_wait"
    /\ status' = "VIDEO_WAITING"
    /\ UNCHANGED <<caller, select, stdout, returncode, buffer, yielded, raised,
                   log, drives, trace>>
    /\ UNCHANGED <<procVars, envVars, callVars, quietVars>>

\* mutant of PreWait: the job is not marked as querying
PreWait_StatusKept ==
    /\ pc = "pre_wait"
    /\ sleep_check_process(max_processes, Count)
    /\ pc' = "admitted"
    /\ status' = status
    /\ trace' = Append(trace, Event("pre_wait"))
    /\ stdout' = <<>>
    /\ returncode' = None
    /\ buffer' = <<>>
    /\ yielded' = <<>>
    /\ UNCHANGED <<caller, select, raised, log, drives>>
    /\ UNCHANGED <<procVars, envVars, callVars, quietVars>>

\* The pre-wait returns, the job is marked as querying and run() is called:
\* its generator is made and has not started.
PreWait ==
    /\ pc = "pre_wait"
    /\ sleep_check_process(max_processes, Count)
    /\ pc' = "admitted"
    /\ status' = "VIDEO_INFO"
    /\ trace' = Append(trace, Event("pre_wait"))
    /\ stdout' = <<>>
    /\ returncode' = None
    /\ buffer' = <<>>
    /\ yielded' = <<>>
    /\ UNCHANGED <<caller, select, raised, log, drives>>
    /\ UNCHANGED <<procVars, envVars, callVars, quietVars>>

\* The body of the for loop of process_messages on the record just yielded.
\* An exception of the processor leaves process_messages with the generator
\* suspended at its yield.
ProcessMessage ==
    /\ pc = "yielded"
    /\ Consumer = "tracks"
    /\ LET Processed(w) ==
               /\ SetW(w)
               /\ raised' = w.exc
               /\ pc' = IF w.exc # NoExc THEN "abandoned" ELSE "reading"
       IN  Processed(process_message(W, yielded[Len(yielded)]))
    /\ UNCHANGED <<caller, select, stdout, returncode, buffer, yielded, log,
                   status, drives, trace>>
    /\ UNCHANGED <<envVars, callVars, quietVars>>

\* mutant of GetDrive: every drive is passed on
GetDrive_All ==
    /\ pc = "yielded"
    /\ Consumer = "drives"
    /\ LET drive == yielded[Len(yielded)]
       IN  IF TRUE
           THEN /\ drives' = Append(drives, drive)
                /\ pc' = "drive_yielded"
           ELSE /\ pc' = "reading"
                /\ UNCHANGED drives
    /\ UNCHANGED <<caller, select, stdout, returncode, buffer, yielded, raised,
                   log, status, trace>>
    /\ UNCHANGED <<procVars, envVars, callVars, quietVars>>

\* The body of the for loop of get_drives on the drive just yielded: an
\* attached drive is passed on to the consumer of get_drives.
GetDrive ==
    /\ pc = "yielded"
    /\ Consumer = "drives"
    /\ LET drive == yielded[Len(yielded)]
       IN  IF drive.attached
           THEN /\ drives' = Append(drives, drive)
                /\ pc' = "drive_yielded"
           ELSE /\ pc' = "reading"
                /\ UNCHANGED drives
    /\ UNCHANGED <<caller, select, stdout, returncode, buffer, yielded, raised,
                   log, status, trace>>
    /\ UNCHANGED <<procVars, envVars, callVars, quietVars>>

\* The consumer of get_drives asks for the next drive.
NextDrive ==
    /\ pc = "drive_yielded"
    /\ pc' = "reading"
    /\ UNCHANGED <<caller, select, stdout, returncode, buffer, yielded, raised,
                   log, status, drives, trace>>
    /\ UNCHANGED <<procVars, envVars, callVars, quietVars>>

\* The consumer of get_drives stops at the drive it was given and drops the
\* generator.
DropDrives ==
    /\ pc = "drive_yielded"
    /\ pc' = "abandoned"
    /\ UNCHANGED <<caller, select, stdout, returncode, buffer, yielded, raised,
                   log, status, drives, trace>>
    /\ UNCHANGED <<procVars, envVars, callVars, quietVars>>

\* mutant of CloseGenerator: makemkv_info without its try/finally, a closed
\* generator ends at its yield
CloseGenerator_NoFinally ==
    /\ pc = "abandoned"
    /\ \E rc \in ExitCodes : returncode' = Some(rc)
    /\ live' = live - 1
    /\ trace' = Append(trace, Event("close"))
    /\ pc' = IF raised # NoExc THEN "raised" ELSE "closed"
    /\ UNCHANGED <<caller, select, stdout, buffer, yielded, raised, log, status,
                   drives>>
    /\ UNCHANGED <<procVars, envVars, callVars, ripVars>>

\* The suspended generator is finalized after its consumer raised or dropped
\* it: GeneratorExit is thrown at the yield of run(), Popen.__exit__ waits
\* for the child, and the finally clause of makemkv_info is entered.
CloseGenerator ==
    /\ pc = "abandoned"
    /\ \E rc \in ExitCodes : returncode' = Some(rc)
    /\ live' = live - 1
    /\ trace' = Append(trace, Event("close"))
    /\ pc' = "info_finally"
    /\ UNCHANGED <<caller, select, stdout, buffer, yielded, raised, log, status,
                   drives>>
    /\ UNCHANGED <<procVars, envVars, callVars, ripVars>>

\* mutant of InfoFinally: the cooldown is slept whatever the ceiling
InfoFinally_AlwaysSleeps ==
    /\ pc = "info_finally"
    /\ status' = "VIDEO_WAITING"
    /\ trace' = Append(trace, Event("sleep"))
    /\ pc' = "post_wait"
    /\ UNCHANGED <<caller, select, stdout, returncode, buffer, yielded, raised,
                   log, drives>>
    /\ UNCHANGED <<procVars, envVars, callVars, quietVars>>

\* The finally clause of makemkv_info up to its post-wait: the job is marked
\* as waiting and, with a ceiling, the cooldown is slept.
InfoFinally ==
    /\ pc = "info_finally"
    /\ status' = "VIDEO_WAITING"
    /\ trace' = IF max_processes # 0 THEN Append(trace, Event("sleep"))
                ELSE trace
    /\ pc' = "post_wait"
    /\ UNCHANGED <<caller, select, stdout, returncode, buffer, yielded, raised,
                   log, drives>>
    /\ UNCHANGED <<procVars, envVars, callVars, quietVars>>

\* mutant of PostWait: process_messages goes on after an exception of run()
PostWait_CommitsOnError ==
    /\ pc = "post_wait"
    /\ sleep_check_process(max_processes, Count)
    /\ status' = "VIDEO_RIPPING"
    /\ trace' = Append(trace, Event("post_wait"))
    /\ pc' = IF Closed THEN (IF raised # NoExc THEN "raised" ELSE "closed")
             ELSE IF Consumer = "tracks" THEN "info_done"
             ELSE "done"
    /\ UNCHANGED <<caller, select, stdout, returncode, buffer, yielded, raised,
                   log, drives>>
    /\ UNCHANGED <<procVars, envVars, callVars, quietVars>>

\* The post-wait returns, the job is marked as ripping and makemkv_info
\* ends: with the exception of run(), by returning to the close() of its
\* consumer, or by exhausting the loop of its consumer.
PostWait ==
    /\ pc = "post_wait"
    /\ sleep_check_process(max_processes, Count)
    /\ status' = "VIDEO_RIPPING"
    /\ trace' = Append(trace, Event("post_wait"))
    /\ pc' = IF raised # NoExc THEN "raised"
             ELSE IF Closed THEN "closed"
             ELSE IF Consumer = "tracks" THEN "info_done"
             ELSE "done"
    /\ UNCHANGED <<caller, select, stdout, returncode, buffer, yielded, raised,
                   log, drives>>
    /\ UNCHANGED <<procVars, envVars, callVars, quietVars>>

\* The last statement of process_messages: add the last track if it exists.
LastTrack ==
    /\ pc = "info_done"
    /\ SetW(add_track(W))
    /\ pc' = "done"
    /\ UNCHANGED <<caller, select, stdout, returncode, buffer, yielded, raised,
                   log, status, drives, trace>>
    /\ UNCHANGED <<envVars, callVars, quietVars>>

Next ==
    \/ StartInfo
    \/ PreWait
    \/ StartRun
    \/ \E l \in Pool : ReadLine(l)
    \/ PopenExit
    \/ EndOfStream
    \/ ProcessMessage
    \/ CloseGenerator
    \/ InfoFinally
    \/ PostWait
    \/ LastTrack

Spec == Init /\ [][Next]_vars

\* ------------------------------------------------------------------------
\* makemkv_info among other makemkvcon processes: the drive scan of
\* get_drives, a peer job running its own info query, and other programs
\* ------------------------------------------------------------------------

InitThrottle ==
    /\ InitCommon
    /\ caller = "drives"
    /\ select = {"DRV"}
    /\ max_processes \in 0..MaxCeiling
    /\ running \in 0..MaxRunning
    /\ peer = "idle"
    /\ call = None
    /\ NoRip

\* the variables of this job
jobVars == <<runVars, procVars, callVars, quietVars, log, status, drives,
             trace, max_processes>>

\* The peer job enters makemkv_info and reaches its pre-wait.
PeerStartInfo ==
    /\ peer = "idle"
    /\ peer' = "pre_wait"
    /\ UNCHANGED <<jobVars, running>>

\* The pre-wait of the peer job returns.
PeerPreWait ==
    /\ peer = "pre_wait"
    /\ sleep_check_process(max_processes, Count)
    /\ peer' = "admitted"
    /\ UNCHANGED <<jobVars, running>>

\* The peer job starts its child process.
PeerStartRun ==
    /\ peer = "admitted"
    /\ peer' = "running"
    /\ UNCHANGED <<jobVars, running>>

\* The child of the peer job exits and the peer reaches its post-wait.
PeerEndOfStream ==
    /\ peer = "running"
    /\ peer' = "post_wait"
    /\ UNCHANGED <<jobVars, running>>

\* The post-wait of the peer job returns.
PeerPostWait ==
    /\ peer = "post_wait"
    /\ sleep_check_process(max_processes, Count)
    /\ peer' = "done"
    /\ UNCHANGED <<jobVars, running>>

\* Another program starts a makemkvcon process.
OtherStarts ==
    /\ running < MaxRunning
    /\ running' = running + 1
    /\ UNCHANGED <<jobVars, peer>>

\* A makemkvcon process of another program exits.
OtherExits ==
    /\ running > 0
    /\ running' = running - 1
    /\ UNCHANGED <<jobVars, peer>>

\* two jobs in makemkv_info, the processes of other programs staying
NextJobs ==
    \/ StartInfo
    \/ PreWait
    \/ StartRun
    \/ \E l \in Pool : ReadLine(l)
    \/ PopenExit
    \/ EndOfStream
    \/ GetDrive
    \/ NextDrive
    \/ DropDrives
    \/ CloseGenerator
    \/ InfoFinally
    \/ PostWait
    \/ PeerStartInfo
    \/ PeerPreWait
    \/ PeerStartRun
    \/ PeerEndOfStream
    \/ PeerPostWait

SpecJobs == InitThrottle /\ [][NextJobs]_vars

NextThrottle ==
    \/ NextJobs
    \/ OtherStarts
    \/ OtherExits

SpecThrottle == InitThrottle /\ [][NextThrottle]_vars

\* get_drives alone on the machine with throttling disabled, over drive
\* lines of every visibility code and flags value
InitScan ==
    /\ InitCommon
    /\ caller = "scan"
    /\ select = {"DRV"}
    /\ max_processes = 0
    /\ running = 0
    /\ peer = "idle"
    /\ call = None
    /\ NoRip

NextScan ==
    \/ StartInfo
    \/ PreWait
    \/ StartRun
    \/ \E l \in Pool : ReadLine(l)
    \/ PopenExit
    \/ EndOfStream
    \/ GetDrive
    \/ NextDrive
    \/ DropDrives
    \/ CloseGenerator
    \/ InfoFinally
    \/ PostWait

SpecScan == InitScan /\ [][NextScan]_vars

\* ------------------------------------------------------------------------
\* parse_line and parse_content called directly
\* ------------------------------------------------------------------------

InitDecode ==
    /\ InitCommon
    /\ caller = "call"
    /\ select = {}
    /\ max_processes = 0
    /\ running = 0
    /\ peer = "idle"
    /\ NoRip
    /\ call \in {Some(c) : c \in ParseLineCalls \cup ParseContentCalls}

\* parse_line(line)
CallParseLine ==
    /\ pc = "start"
    /\ call # None
    /\ call[1].fn = "parse_line"
    /\ LET r == ParsedLine[call[1].line]
       IN  /\ log' = log \o r.log
           /\ raised' = r.exc
           /\ ret' = IF r.exc = NoExc THEN Some(<<r.msg_type, r.data>>) ELSE None
           /\ pc' = IF r.exc = NoExc THEN "done" ELSE "raised"
    /\ UNCHANGED <<caller, select, stdout, returncode, buffer, yielded, status,
                   drives, trace, call>>
    /\ UNCHANGED <<procVars, envVars, quietVars>>

\* list(parse_content(content, num_header, num_message))
CallParseContent ==
    /\ pc = "start"
    /\ call # None
    /\ call[1].fn = "parse_content"
    /\ ret' = Some(parse_content(call[1].content, call[1].num_header,
                                 call[1].num_message))
    /\ pc' = "done"
    /\ UNCHANGED <<caller, select, stdout, returncode, buffer, yielded, raised,
                   log, status, drives, trace, call>>
    /\ UNCHANGED <<procVars, envVars, quietVars>>

NextDecode ==
    \/ CallParseLine
    \/ CallParseContent

SpecDecode == InitDecode /\ [][NextDecode]_vars

\* ------------------------------------------------------------------------
\* makemkv: the key update, the drive scan for a drive without a disc
\* number, the raw path, the backup, and makemkv_mkv with the info query of
\* get_track_info, the routing to the rip functions, manual_wait and the rips
\* ------------------------------------------------------------------------

\* wait_time of manual_wait, in minutes
wait_time == 30

\* the largest MAXLENGTH with which tracks are still ripped one by one
MaxSingleLength == 99998

Title_Manual == "Manual Mode Activated!"

Title_Waiting == "Waiting for input on job!"

Title_WaitOver == "The Wait is Over"

Title_Abandoned == "ARM is Sad - Job Abandoned"

\* RAW_PATH/title, and RAW_PATH/title_stage
RawPath == "raw_path"

RawPathStage == "raw_path_stage"

\* setup_rawpath(job, RAW_PATH/title) by what exists: nothing ("free"),
\* RAW_PATH/title ("taken"), or RAW_PATH/title and a RAW_PATH/title_stage
\* that cannot be made ("both").  A RAW_PATH/title that does not exist and
\* cannot be made is logged and returned.
setup_rawpath(raw) ==
    [exc |-> IF raw = "both" THEN "OSError" ELSE NoExc,
     val |-> IF raw = "free" THEN RawPath ELSE RawPathStage]

\* the mount of the drive of the job
JobMount == <<"m">>

\* job.drive.mdisc: the disc number the drive had at the call or, without
\* one, the index of the last drive of the scan mounted where the drive of
\* the job is
Mdisc ==
    IF config.mdisc # None THEN config.mdisc
    ELSE LET M == {i \in 1..Len(drives) : drives[i].mount = JobMount}
         IN  IF M = {} THEN None
             ELSE Some(drives[CHOOSE i \in M : \A j \in M : j <= i].index)

\* the branch makemkv takes with the raw path
Branch(cfg) ==
    IF cfg.RIPMETHOD \in {"backup", "backup_dvd"} /\ cfg.disctype = "bluray"
    THEN "backup"
    ELSE IF cfg.RIPMETHOD = "mkv" \/ cfg.disctype = "dvd" THEN "mkv"
    ELSE "pass"

\* one notify(job, title, body) call; left is the i the body was made with
Notice(title, body, left) == [title |-> title, body |-> body, left |-> left]

\* the notices of one pass, marked with the number of checks made by then
Sent(notes, n) ==
    [k \in 1..Len(notes) |->
        [title |-> notes[k].title, body |-> notes[k].body,
         left |-> notes[k].left, after |-> n]]

\* mutant of manual_check: the loop goes on after the flag was seen set
manual_check_NoBreak(i, ready) ==
    [stop |-> i = 1,
     user_ready |-> ready,
     notes |-> IF ready THEN <<Notice(Title_WaitOver, "thanks", i)>> ELSE <<>>]

\* One pass of the loop of manual_wait after sleep(60) and the refresh of
\* the job, with ready the job.manual_start read: whether the loop ends,
\* user_ready, and the notify calls of the pass.  range(wait_time, 0, -1)
\* ends with the pass of i = 1.
manual_check(i, ready) ==
    IF ready
    THEN [stop |-> TRUE,
          user_ready |-> TRUE,
          notes |-> <<Notice(Title_WaitOver, "thanks", i)>>]
    ELSE [stop |-> i = 1,
          user_ready |-> FALSE,
          notes |->
              (IF i % 5 = 0 /\ i # wait_time
               THEN <<Notice(Title_Waiting, "reminder", i)>> ELSE <<>>)
              \o (IF i = 1
                  THEN <<Notice(Title_Waiting, "cancel", i)>> ELSE <<>>)]

\* the branch makemkv_mkv takes after get_track_info
Route(cfg) ==
    IF cfg.MAINFEATURE THEN "main"
    ELSE IF cfg.mode = "manual" THEN "manual"
    ELSE IF cfg.MAXLENGTH > MaxSingleLength THEN "all"
    ELSE "auto"

\* the value process_single_tracks gives track.process in 'auto' mode
track_process(length, minlength, maxlength) ==
    IF length < minlength THEN FALSE
    ELSE IF length > maxlength THEN FALSE
    ELSE TRUE

\* the rows of job.tracks with the greatest length: what
\* order_by(Track.length.desc()).first() may return
Longest ==
    {k \in 1..Len(tracks) :
        \A j \in 1..Len(tracks) : tracks[j].seconds <= tracks[k].seconds}

\* a job that differs from cfg in RIPMETHOD, disc type, the disc number of
\* its drive and the raw paths that exist
Job(cfg, ripmethod, disctype, mdisc, raw) ==
    [cfg EXCEPT !.RIPMETHOD = ripmethod, !.disctype = disctype,
                !.mdisc = mdisc, !.raw = raw]

\* the configurations of the jobs
Configs ==
    {Config("auto", TRUE, 65, 120),
     Config("manual", TRUE, 65, 120),
     Config("manual", FALSE, 65, 120),
     Config("auto", FALSE, 65, 99999),
     Config("auto", FALSE, 65, 120),
     Config("auto", FALSE, 66, 119),
     Config("auto", FALSE, 0, 65),
     Job(Config("auto", FALSE, 65, 120), "mkv", "bluray", None, "free"),
     Job(Config("manual", FALSE, 65, 120), "backup", "dvd", Some(0), "taken"),
     Job(Config("auto", FALSE, 65, 120), "mkv", "dvd", Some(0), "both"),
     Job(Config("auto", FALSE, 65, 120), "backup", "bluray", Some(0), "free"),
     Job(Config("auto", FALSE, 65, 120), "backup_dvd", "bluray", None, "taken"),
     Job(Config("auto", FALSE, 65, 120), "backup", "data", Some(0), "free")}

\* makemkv before its first statement
InitRip ==
    /\ InitCommon
    /\ caller = "mkv"
    /\ select = {}
    /\ max_processes \in 0..MaxCeiling
    /\ running = 0
    /\ peer = "idle"
    /\ call = None
    /\ config \in Configs
    /\ phase = "prep"
    /\ mkv_rawpath = None

\* a call of run(cmd, OutputType.MSG) that rips what (row row of job.tracks,
\* 0 for the whole disc), before its first statement
NewRun(what, row, track) ==
    /\ select' = {"MSG"}
    /\ stdout' = <<>>
    /\ returncode' = None
    /\ buffer' = <<>>
    /\ yielded' = <<>>
    /\ pc' = "start"
    /\ ripped' = Append(ripped, [what |-> what, row |-> row, track |-> track])

\* makemkv with the disc number of the drive settled: without one the
\* format of None fails; setup_rawpath; then the backup is started,
\* makemkv_mkv is called, or nothing is done.
Dispatch ==
    LET path == setup_rawpath(config.raw)
    IN  IF Mdisc = None \/ path.exc # NoExc
        THEN /\ raised' = IF Mdisc = None THEN "TypeError" ELSE path.exc
             /\ pc' = "raised"
             /\ UNCHANGED <<select, stdout, returncode, buffer, yielded, phase,
                            ripped, mkv_rawpath>>
        ELSE IF Branch(config) = "backup"
        THEN /\ phase' = "backup"
             /\ NewRun("backup", 0, None)
             /\ UNCHANGED <<raised, mkv_rawpath>>
        ELSE IF Branch(config) = "mkv"
        THEN /\ phase' = "info"
             /\ select' = InfoSelect
             /\ mkv_rawpath' = Some(path.val)
             /\ pc' = "start"
             /\ UNCHANGED <<stdout, returncode, buffer, yielded, raised, ripped>>
        ELSE /\ phase' = "pass"
             /\ pc' = "mkv_done"
             /\ UNCHANGED <<select, stdout, returncode, buffer, yielded, raised,
                            ripped, mkv_rawpath>>

\* makemkv up to its first child process: prep_mkv fails when the key
\* update fails; a drive without a disc number is looked for with
\* get_drives; otherwise makemkv goes on with the raw path.
MkvPrep ==
    /\ caller = "mkv"
    /\ phase = "prep"
    /\ pc = "start"
    /\ \/ /\ raised' = "MakeMkvRuntimeError"
          /\ pc' = "raised"
          /\ UNCHANGED <<select, stdout, returncode, buffer, yielded, phase,
                         ripped, mkv_rawpath>>
       \/ IF config.mdisc = None
          THEN /\ phase' = "scan"
               /\ select' = {"DRV"}
               /\ UNCHANGED <<pc, stdout, returncode, buffer, yielded, raised,
                              ripped, mkv_rawpath>>
          ELSE Dispatch
    /\ UNCHANGED <<caller, log, status, drives, trace, live>>
    /\ UNCHANGED <<config, manual_start, wait_i, checks, notices, user_ready,
                   process, cursor, result>>
    /\ UNCHANGED <<procVars, envVars, callVars>>

\* The drive scan of makemkv has ended and the disc numbers are stored.
MkvScanned ==
    /\ caller = "mkv"
    /\ phase = "scan"
    /\ pc = "done"
    /\ Dispatch
    /\ UNCHANGED <<caller, log, status, drives, trace, live>>
    /\ UNCHANGED <<config, manual_start, wait_i, checks, notices, user_ready,
                   process, cursor, result>>
    /\ UNCHANGED <<procVars, envVars, callVars>>

\* get_track_info has returned: makemkv_mkv picks its branch.
MkvRoute ==
    /\ caller = "mkv"
    /\ phase = "info"
    /\ pc = "done"
    /\ phase' = Route(config)
    /\ pc' = "routed"
    /\ UNCHANGED <<caller, select, stdout, returncode, buffer, yielded, raised,
                   log, status, drives, trace, live>>
    /\ UNCHANGED <<config, manual_start, wait_i, checks, notices, user_ready,
                   process, cursor, ripped, mkv_rawpath, result>>
    /\ UNCHANGED <<procVars, envVars, callVars>>

\* rip_mainfeature on the longest track up to its run(): without a track
\* the attribute access fails, and with logging enabled for INFO the
\* keyword arguments of its first logging.info call are rejected.
RipMainFeature ==
    /\ phase = "main"
    /\ pc = "routed"
    /\ IF tracks = <<>>
       THEN /\ raised' = "AttributeError"
            /\ pc' = "raised"
            /\ UNCHANGED <<select, stdout, returncode, buffer, yielded, ripped>>
       ELSE \E k \in Longest :
              \/ /\ raised' = "TypeError"
                 /\ pc' = "raised"
                 /\ UNCHANGED <<select, stdout, returncode, buffer, yielded,
                                ripped>>
              \/ /\ NewRun("main", k, tracks[k].track_id)
                 /\ UNCHANGED raised
    /\ UNCHANGED <<caller, log, status, drives, trace, live>>
    /\ UNCHANGED <<config, phase, manual_start, wait_i, checks, notices,
                   user_ready, process, cursor, mkv_rawpath, result>>
    /\ UNCHANGED <<procVars, envVars, callVars>>

\* makemkv_mkv without a maximum length: the whole disc in one command.
RipAll ==
    /\ phase = "all"
    /\ pc = "routed"
    /\ NewRun("all", 0, None)
    /\ UNCHANGED <<caller, raised, log, status, drives, trace, live>>
    /\ UNCHANGED <<config, phase, manual_start, wait_i, checks, notices,
                   user_ready, process, cursor, mkv_rawpath, result>>
    /\ UNCHANGED <<procVars, envVars, callVars>>

\* makemkv_mkv in manual mode up to the first sleep of manual_wait.
ManualStart ==
    /\ phase = "manual"
    /\ pc = "routed"
    /\ status' = "VIDEO_WAITING"
    /\ notices' = notices \o Sent(<<Notice(Title_Manual, "start", wait_time)>>, 0)
    /\ wait_i' = wait_time
    /\ pc' = "waiting"
    /\ UNCHANGED <<caller, select, stdout, returncode, buffer, yielded, raised,
                   log, drives, trace, live>>
    /\ UNCHANGED <<config, phase, manual_start, checks, user_ready, process,
                   cursor, ripped, mkv_rawpath, result>>
    /\ UNCHANGED <<procVars, envVars, callVars>>

\* The user starts the job in the web UI while manual_wait sleeps.
UserStarts ==
    /\ pc = "waiting"
    /\ ~manual_start
    /\ manual_start' = TRUE
    /\ UNCHANGED <<runVars, log, status, drives, trace, live>>
    /\ UNCHANGED <<config, phase, wait_i, checks, notices, user_ready, process,
                   cursor, ripped, mkv_rawpath, result>>
    /\ UNCHANGED <<procVars, envVars, callVars>>

\* One pass of the loop of manual_wait: the minute has passed, the job is
\* refreshed and checked; the pass that ends the loop returns user_ready.
ManualCheck ==
    /\ pc = "waiting"
    /\ LET c == manual_check(wait_i, manual_start)
       IN  /\ checks' = Append(checks, manual_start)
           /\ notices' = notices \o Sent(c.notes, Len(checks) + 1)
           /\ IF c.stop
              THEN /\ user_ready' = Some(c.user_ready)
                   /\ pc' = "waited"
                   /\ UNCHANGED wait_i
              ELSE /\ wait_i' = wait_i - 1
                   /\ UNCHANGED <<user_ready, pc>>
    /\ UNCHANGED <<caller, select, stdout, returncode, buffer, yielded, raised,
                   log, status, drives, trace, live>>
    /\ UNCHANGED <<config, phase, manual_start, process, cursor, ripped,
                   mkv_rawpath, result>>
    /\ UNCHANGED <<procVars, envVars, callVars>>

\* manual_wait has returned to makemkv_mkv: the job goes on to rip the
\* tracks the user chose, or is abandoned.
ManualDone ==
    /\ pc = "waited"
    /\ IF user_ready[1]
       THEN /\ status' = "VIDEO_RIPPING"
            /\ pc' = "tracks"
            /\ UNCHANGED <<notices, mkv_rawpath>>
       ELSE /\ notices' = notices \o
                    Sent(<<Notice(Title_Abandoned, "abandoned", 0)>>, Len(checks))
            /\ mkv_rawpath' = None
            /\ pc' = "mkv_done"
            /\ UNCHANGED status
    /\ UNCHANGED <<caller, select, stdout, returncode, buffer, yielded, raised,
                   log, drives, trace, live>>
    /\ UNCHANGED <<config, phase, manual_start, wait_i, checks, user_ready,
                   process, cursor, ripped, result>>
    /\ UNCHANGED <<procVars, envVars, callVars>>

\* makemkv_mkv without manual mode and with a maximum length.
AutoStart ==
    /\ phase = "auto"
    /\ pc = "routed"
    /\ pc' = "tracks"
    /\ UNCHANGED <<caller, select, stdout, returncode, buffer, yielded, raised,
                   log, status, drives, trace, live>>
    /\ UNCHANGED <<ripVars, procVars, envVars, callVars>>

\* process_single_tracks reads job.tracks: the rows that put_track wrote, in
\* order, each with the process flag the database holds for it.
StartTracks ==
    /\ pc = "tracks"
    /\ process' \in [1..Len(tracks) -> BOOLEAN]
    /\ pc' = "loop"
    /\ UNCHANGED <<caller, select, stdout, returncode, buffer, yielded, raised,
                   log, status, drives, trace, live>>
    /\ UNCHANGED <<config, phase, manual_start, wait_i, checks, notices,
                   user_ready, cursor, ripped, mkv_rawpath, result>>
    /\ UNCHANGED <<procVars, envVars, callVars>>

\* mutant of NextTrack: the loop goes on after a rip that raised
NextTrack_AfterError ==
    /\ phase \in {"manual", "auto"}
    /\ pc \in {"loop", "done", "raised"}
    /\ IF cursor = Len(tracks)
       THEN /\ pc' = "mkv_done"
            /\ UNCHANGED <<select, stdout, returncode, buffer, yielded,
                           process, cursor, ripped, raised>>
       ELSE LET k == cursor + 1
                flag == IF phase = "auto"
                        THEN track_process(tracks[k].seconds, config.MINLENGTH,
                                           config.MAXLENGTH)
                        ELSE process[k]
            IN  /\ cursor' = k
                /\ process' = [process EXCEPT ![k] = flag]
                /\ IF flag /\ no_of_titles = None
                   THEN /\ raised' = "TypeError"
                        /\ pc' = "raised"
                        /\ UNCHANGED <<select, stdout, returncode, buffer,
                                       yielded, ripped>>
                   ELSE IF flag
                   THEN /\ NewRun("track", k, tracks[k].track_id)
                        /\ UNCHANGED raised
                   ELSE /\ pc' = "loop"
                        /\ UNCHANGED <<select, stdout, returncode, buffer,
                                       yielded, ripped, raised>>
    /\ UNCHANGED <<caller, log, status, drives, trace, live>>
    /\ UNCHANGED <<config, phase, manual_start, wait_i, checks, notices,
                   user_ready, mkv_rawpath, result>>
    /\ UNCHANGED <<procVars, envVars, callVars>>

\* The loop of process_single_tracks takes its next row, at its start or
\* when the rip of the row before has ended without error: in 'auto' mode
\* the flag of the row is set from its length, and a row whose flag is set
\* is ripped: its log line subtracts 1 from job.no_of_titles, which fails
\* when the info query had no title count, and its rip is started.  Without
\* a next row process_single_tracks returns.
NextTrack ==
    /\ phase \in {"manual", "auto"}
    /\ pc \in {"loop", "done"}
    /\ IF cursor = Len(tracks)
       THEN /\ pc' = "mkv_done"
            /\ UNCHANGED <<select, stdout, returncode, buffer, yielded,
                           process, cursor, ripped, raised>>
       ELSE LET k == cursor + 1
                flag == IF phase = "auto"
                        THEN track_process(tracks[k].seconds, config.MINLENGTH,
                                           config.MAXLENGTH)
                        ELSE process[k]
            IN  /\ cursor' = k
                /\ process' = [process EXCEPT ![k] = flag]
                /\ IF flag /\ no_of_titles = None
                   THEN /\ raised' = "TypeError"
                        /\ pc' = "raised"
                        /\ UNCHANGED <<select, stdout, returncode, buffer,
                                       yielded, ripped>>
                   ELSE IF flag
                   THEN /\ NewRun("track", k, tracks[k].track_id)
                        /\ UNCHANGED raised
                   ELSE /\ pc' = "loop"
                        /\ UNCHANGED <<select, stdout, returncode, buffer,
                                       yielded, ripped, raised>>
    /\ UNCHANGED <<caller, log, status, drives, trace, live>>
    /\ UNCHANGED <<config, phase, manual_start, wait_i, checks, notices,
                   user_ready, mkv_rawpath, result>>
    /\ UNCHANGED <<procVars, envVars, callVars>>

\* makemkv_backup or makemkv_mkv has returned to makemkv, or neither was
\* called: makemkv ejects the disc and returns its own rawpath.
MkvReturn ==
    /\ caller = "mkv"
    /\ \/ pc = "mkv_done"
       \/ phase \in {"main", "all", "backup"} /\ pc = "done"
    /\ result' = Some(Some(setup_rawpath(config.raw).val))
    /\ pc' = "returned"
    /\ UNCHANGED <<caller, select, stdout, returncode, buffer, yielded, raised,
                   log, status, drives, trace, live>>
    /\ UNCHANGED <<config, phase, manual_start, wait_i, checks, notices,
                   user_ready, process, cursor, ripped, mkv_rawpath>>
    /\ UNCHANGED <<procVars, envVars, callVars>>

NextRip ==
    \/ MkvPrep
    \/ StartInfo
    \/ PreWait
    \/ StartRun
    \/ \E l \in Pool : ReadLine(l)
    \/ PopenExit
    \/ EndOfStream
    \/ GetDrive
    \/ NextDrive
    \/ MkvScanned
    \/ ProcessMessage
    \/ CloseGenerator
    \/ InfoFinally
    \/ PostWait
    \/ LastTrack
    \/ MkvRoute
    \/ RipMainFeature
    \/ RipAll
    \/ ManualStart
    \/ UserStarts
    \/ ManualCheck
    \/ ManualDone
    \/ AutoStart
    \/ StartTracks
    \/ NextTrack
    \/ MkvReturn

SpecRip == InitRip /\ [][NextRip]_vars

\* ------------------------------------------------------------------------
\* What the output read so far says, independently of run()'s bookkeeping
\* ------------------------------------------------------------------------

Range(s) == {s[i] : i \in 1..Len(s)}

\* the call has ended
Terminal == pc \in {"done", "raised"}

\* the lines read so far, without their terminators
Lines == [i \in 1..Len(stdout) |-> RStrip(stdout[i], {LineSep})]

\* the line decodes to a record
Decodes(line) == ParsedLine[line].exc = NoExc

\* the line has no ':' or the text before its first ':' is no known tag
TagError(line) ==
    \/ \A i \in 1..Len(line) : line[i] # ":"
    \/ MemberOf(PySplit(line, <<":">>, 1)[1]) \notin OutputType

\* the line has a known tag and a payload that does not decode
PayloadError(line) == ~TagError(line) /\ ~Decodes(line)

\* the records of the decodable lines of ls whose tag is in sel, in order
RECURSIVE YieldOf(_, _)
YieldOf(ls, sel) ==
    IF ls = <<>> THEN <<>>
    ELSE LET r == ParsedLine[Head(ls)]
         IN  (IF r.exc = NoExc /\ r.msg_type \in sel THEN <<r.data>> ELSE <<>>)
             \o YieldOf(Tail(ls), sel)

\* ------------------------------------------------------------------------
\* Claims on run()
\* ------------------------------------------------------------------------

\* C1: whenever the child process ends with a non-zero exit status, run
\* raises MakeMkvRuntimeError, for every sequence of output lines, and every
\* record that matches the mask has been yielded before it.
C1_NonZeroExitRaisesRuntimeError ==
    (caller = "direct" /\ Terminal /\ Truthy(returncode)) =>
        /\ raised = "MakeMkvRuntimeError"
        /\ yielded = YieldOf(Lines, select)

\* C2: with exit status 0, run ends without error if and only if the
\* unparsed-line buffer is empty, and an unparsed line makes it raise
\* MakeMkvRuntimeError.
C2_ExitZeroCleanIffBufferEmpty ==
    (caller = "direct" /\ Terminal /\ returncode = Some(0)) =>
        /\ (raised = NoExc) <=> (buffer = <<>>)
        /\ (buffer # <<>>) => (raised = "MakeMkvRuntimeError")

\* C3: a line with no ':' or with an unknown tag is a decode error; run
\* buffers the raw line, does not abort, and every later line of the stream
\* is still decoded and yielded if it matches the mask.
C3_TagErrorBufferedStreamContinues ==
    (caller = "direct" /\ Terminal) =>
        \A i \in 1..Len(Lines) :
            TagError(Lines[i]) =>
                /\ ParsedLine[Lines[i]].exc = "MakeMkvParserError"
                /\ Lines[i] \in Range(buffer)
                /\ raised \in {NoExc, "MakeMkvRuntimeError"}
                /\ yielded = YieldOf(Lines, select)

\* C4: a line with a known tag whose payload does not match the tag's shape
\* is recovered from locally: the line is buffered, the stream continues and
\* the error surfaces only as the MakeMkvRuntimeError at the end of the run.
C4_PayloadErrorBufferedStreamContinues ==
    caller = "direct" =>
        \A i \in 1..Len(Lines) :
            PayloadError(Lines[i]) =>
                /\ Lines[i] \in Range(buffer)
                /\ raised \in {NoExc, "MakeMkvRuntimeError"}
                /\ Terminal => raised = "MakeMkvRuntimeError"

\* C5: a decoded record is yielded if and only if its tag is in the mask,
\* the yielded records keep the order of their lines, and a decoded record
\* is never put into the buffer, so a run of decodable lines that exits 0
\* ends without error whatever the mask drops.
C5_YieldedIffSelected ==
    /\ yielded = YieldOf(Lines, select)
    /\ \A i \in 1..Len(buffer) : ~Decodes(buffer[i])
    /\ (/\ caller = "direct"
        /\ Terminal
        /\ returncode = Some(0)
        /\ \A i \in 1..Len(Lines) : Decodes(Lines[i]))
       => raised = NoExc

\* C5 witness: a run of three decodable lines has ended cleanly with two
\* different records yielded and one dropped.
C5_Witness ==
    /\ caller = "direct"
    /\ pc = "done"
    /\ returncode = Some(0)
    /\ Len(stdout) = 3
    /\ Len(yielded) = 2
    /\ yielded[1] # yielded[2]
    /\ buffer = <<>>

\* ------------------------------------------------------------------------
\* What the records handed to the track aggregator say
\* ------------------------------------------------------------------------

\* the records process_messages has taken from the generator and processed
Processed ==
    IF pc = "yielded" THEN SubSeq(yielded, 1, Len(yielded) - 1) ELSE yielded

IsTitleRecord(r) == r.cls \in {"TInfo", "SInfo"}

\* the TINFO and SINFO records processed, in order
TitleRecords == SelectSeq(Processed, IsTitleRecord)

\* their title ids
TitleIds == [i \in 1..Len(TitleRecords) |-> TitleRecords[i].tid]

\* the maximal runs of records of equal title id, in order
RECURSIVE RunsOf(_)
RunsOf(rs) ==
    IF rs = <<>> THEN <<>>
    ELSE LET rest == RunsOf(Tail(rs))
         IN  IF rest # <<>> /\ Head(rest)[1].tid = Head(rs).tid
             THEN <<(<<Head(rs)>> \o Head(rest))>> \o Tail(rest)
             ELSE <<(<<Head(rs)>>)>> \o rest

Runs == RunsOf(TitleRecords)

\* the title id of each run
RunIds == [k \in 1..Len(Runs) |-> Runs[k][1].tid]

\* the title ids of the put_track calls made
CommittedIds == [k \in 1..Len(tracks) |-> tracks[k].track_id]

\* all but the last element
Front(s) == SubSeq(s, 1, Len(s) - 1)

\* every title's records are contiguous: no title id starts two runs
Contiguous == \A j, k \in 1..Len(RunIds) : RunIds[j] = RunIds[k] => j = k

\* the descriptor the accumulator holds
Pending ==
    [track_id |-> track_id[1], seconds |-> seconds, aspect |-> aspect,
     fps |-> fps, forced |-> FALSE, source |-> SOURCE, filename |-> filename]

\* ------------------------------------------------------------------------
\* Claims on the track aggregator
\* ------------------------------------------------------------------------

\* the commits made are those of the runs of equal title id: all of them
\* once process_messages has returned, all but the pending one before
C6_CommitsAreRuns ==
    caller = "tracks" =>
        /\ CommittedIds = IF pc = "done" THEN RunIds ELSE Front(RunIds)
        /\ (pc = "done" /\ Contiguous) =>
               \A t \in Range(TitleIds) :
                   Cardinality({k \in 1..Len(tracks) : tracks[k].track_id = t}) = 1

\* a step commits exactly when a record of another title arrives or the
\* stream has ended, and what it commits is the descriptor held before the
\* step
C6_CommitStep ==
    LET m == yielded[Len(yielded)]
        other == /\ pc = "yielded"
                 /\ IsTitleRecord(m)
                 /\ track_id # None
                 /\ track_id # Some(m.tid)
        ended == pc = "info_done" /\ track_id # None
    IN  /\ (other \/ ended) => tracks' = Append(tracks, Pending)
        /\ ~(other \/ ended) => tracks' = tracks

\* C6: a commit for title T happens exactly when a record with a different
\* title id arrives or the stream ends, before any field of the new title's
\* record is applied; the number of commits equals the number of maximal
\* runs of equal title id, and when every title's records are contiguous
\* every title id is committed exactly once, in order of first appearance.
C6_CommitOnTitleChangeOrEnd == []C6_CommitsAreRuns /\ [][C6_CommitStep]_vars

\* C6 witness: two titles with contiguous records, three records in all,
\* have been committed in order of appearance.
C6_Witness ==
    /\ caller = "tracks"
    /\ pc = "done"
    /\ Len(TitleRecords) = 3
    /\ CommittedIds = <<0, 1>>

\* C7: when the record stream ends the pending descriptor is committed, so
\* after process_messages every title id of a TINFO or SINFO record, title
\* id 0 included, has been committed; without such a record nothing is
\* committed.
C7_AllTitlesCommittedAtEnd ==
    caller = "tracks" =>
        /\ pc = "done" => Range(TitleIds) \subseteq Range(CommittedIds)
        /\ pc = "done" /\ TitleIds # <<>> =>
               tracks[Len(tracks)].track_id = TitleIds[Len(TitleIds)]
        /\ TitleIds = <<>> => tracks = <<>>

\* C7 witness: the only title of the stream is title 0 and it has been
\* committed at the end of the stream.
C7_Witness ==
    /\ caller = "tracks"
    /\ pc = "done"
    /\ Range(TitleIds) = {0}
    /\ CommittedIds = <<0>>

\* the run has a TINFO record of attribute id
HasTInfo(run, id) ==
    \E i \in 1..Len(run) : run[i].cls = "TInfo" /\ run[i].id = id

\* the run has a SINFO record of attribute id
HasSInfo(run, id) ==
    \E i \in 1..Len(run) : run[i].cls = "SInfo" /\ run[i].id = id

\* C8: after each commit the accumulator is back at its defaults, so the
\* descriptor committed for a title carries only values set by records of
\* the title's own run: without a DURATION record its duration is 0,
\* without a FILENAME record its filename is empty, without an ASPECT or FPS
\* record its aspect is empty and its fps 0.0; the commit does not raise.
C8_CommitCarriesOwnValuesOnly ==
    caller = "tracks" =>
        /\ \A k \in 1..Len(tracks) :
              /\ ~HasTInfo(Runs[k], TrackID_DURATION) => tracks[k].seconds = 0
              /\ ~HasTInfo(Runs[k], TrackID_FILENAME) => tracks[k].filename = <<>>
              /\ ~HasSInfo(Runs[k], StreamID_ASPECT) => tracks[k].aspect = <<>>
              /\ ~HasSInfo(Runs[k], StreamID_FPS) => tracks[k].fps = FpsDefault
        /\ pc = "done" =>
              /\ seconds = 0 /\ aspect = <<>> /\ fps = FpsDefault /\ filename = <<>>
              /\ raised = NoExc

\* C8 witness: title 0 was committed with a filename and a duration, then
\* title 1, which has neither record, with the defaults.
C8_Witness ==
    /\ caller = "tracks"
    /\ pc = "done"
    /\ Len(tracks) = 2
    /\ tracks[1].seconds = 65 /\ tracks[1].filename # <<>>
    /\ tracks[2].track_id = 1
    /\ tracks[2].seconds = 0 /\ tracks[2].filename = <<>>

\* the latest TYPE record that stream sid of title tid sent among rs says
\* video
OwnTypeIsVideo(rs, tid, sid) ==
    LET IsType(r) == /\ r.cls = "SInfo" /\ r.tid = tid /\ r.sid = sid
                     /\ r.id = StreamID_TYPE
        ty == SelectSeq(rs, IsType)
    IN  ty # <<>> /\ ty[Len(ty)].code = MAKEMKV_STREAM_CODE_TYPE_VIDEO

\* a record of attribute id of the current title was processed that came
\* from a stream whose own type is video
FromVideoStream(id) ==
    \E i \in 1..Len(Processed) :
        LET r == Processed[i]
        IN  /\ r.cls = "SInfo" /\ r.id = id /\ Some(r.tid) = track_id
            /\ OwnTypeIsVideo(SubSeq(Processed, 1, i - 1), r.tid, r.sid)

\* C9: aspect and fps are recorded only from SINFO records of a stream
\* whose own stream-type attribute is 6201; an ASPECT or FPS record of any
\* other stream, one that sent no type record included, is ignored.
C9_AspectFpsOnlyFromVideoStream ==
    caller = "tracks" =>
        /\ aspect # <<>> => FromVideoStream(StreamID_ASPECT)
        /\ fps # FpsDefault => FromVideoStream(StreamID_FPS)

\* C10: a TCOUNT record only updates the expected title count: the current
\* title id and every accumulator field stay as they are and nothing is
\* committed; a CINFO record changes nothing at all.
C10_Step ==
    (pc = "yielded" /\ pc' # "yielded") =>
        LET m == yielded[Len(yielded)]
        IN  /\ m.cls = "Titles" =>
                  /\ no_of_titles' = Some(m.count)
                  /\ UNCHANGED <<track_id, seconds, aspect, fps, filename,
                                 stream_type, tracks>>
                  /\ pc' = "reading"
            /\ m.cls = "CInfo" =>
                  /\ UNCHANGED procVars
                  /\ pc' = "reading"

C10_TitleCountLeavesAccumulator == [][C10_Step]_vars

\* C10 witness: a TCOUNT record was processed in the middle of a title whose
\* filename is already held, and only the title count changed.
C10_Witness ==
    /\ caller = "tracks"
    /\ pc = "reading"
    /\ yielded # <<>>
    /\ yielded[Len(yielded)].cls = "Titles"
    /\ no_of_titles = Some(2)
    /\ track_id = Some(0)
    /\ filename # <<>>
    /\ tracks = <<>>

\* ------------------------------------------------------------------------
\* Direct calls of the decoder
\* ------------------------------------------------------------------------

\* the direct call, once it has been made, was parse_line on a line of tag
LineCallEnded(tag) ==
    /\ caller = "call"
    /\ pc \in {"done", "raised"}
    /\ call[1].fn = "parse_line"
    /\ call[1].tag = tag

\* the fields of the line as makemkvcon wrote them
WireInts == call[1].ints

WireStrs == call[1].strs

\* the record parse_line returned
Record == ret[1][2]

\* the codes the classifier turns into error messages
ErrorCodes == {2003, 2019, 5055, 5080}

\* the log-only codes
LogOnlyCodes == {5010, 5003, 5004, 1002, 5096, 5052}

\* the message as decoded from the line, before it is classified
WireMessage ==
    [cls |-> "MakeMKVMessage", code |-> WireInts[1], flags |-> WireInts[2],
     count |-> WireInts[3], message |-> WireStrs[1],
     sprintf |-> Tail(WireStrs)]

\* the parameters of the message: the fields after the template
WireParams == SubSeq(WireStrs, 3, Len(WireStrs))

\* C11: the record returned for a message line is an error message if and
\* only if the code of the message is 2003, 2019, 5055 or 5080; for the
\* log-only codes and for every other code it is the message as decoded,
\* unchanged.
C11_ErrorMessageIffErrorCode ==
    (LineCallEnded("MSG") /\ pc = "done") =>
        /\ Record.cls = "MakeMKVErrorMessage" <=> WireInts[1] \in ErrorCodes
        /\ WireInts[1] \notin ErrorCodes => Record = WireMessage

\* a log-only message with two parameters was classified and came back as
\* it was decoded
C11_Witness ==
    /\ LineCallEnded("MSG")
    /\ pc = "done"
    /\ WireInts[1] = 5096
    /\ Len(WireParams) = 2
    /\ Record = WireMessage

\* C12 as claimed: a message with code 5055 or 5080 gives an error message
\* whatever the number of its parameters, none included.
C12_SpecialCodeAlwaysErrorMessage ==
    (LineCallEnded("MSG") /\ WireInts[1] \in {5055, 5080}) =>
        /\ pc = "done"
        /\ Record.cls = "MakeMKVErrorMessage"

\* C12 as amended: a message with code 5055 or 5080 gives an error message
\* for every number of parameters from one on; with no parameter the
\* classifier raises ValueError and gives no record.
C12_SpecialCodeErrorMessageFromOneParam ==
    (LineCallEnded("MSG") /\ WireInts[1] \in {5055, 5080}) =>
        IF Len(WireParams) >= 1
        THEN pc = "done" /\ Record.cls = "MakeMKVErrorMessage"
        ELSE pc = "raised" /\ raised = "ValueError" /\ ret = None

\* a message with code 5080 and two parameters became an error message
C12_Witness ==
    /\ LineCallEnded("MSG")
    /\ WireInts[1] = 5080
    /\ Len(WireParams) = 2
    /\ pc = "done"
    /\ Record.cls = "MakeMKVErrorMessage"

\* the severity the claim gives to a first parameter of a read error
ReadErrorSeverity(text) ==
    IF text \in {ERROR_MESSAGE_OPERATION_RESULT, ERROR_MESSAGE_MEDIUM_ERROR,
                 ERROR_MESSAGE_HARDWARE_ERROR}
    THEN "critical"
    ELSE IF text = ERROR_MESSAGE_TRAY_OPEN THEN "info"
    ELSE "warning"

\* the levels the classifier logged at, the debug notes aside
LoggedLevels == {log[i].level : i \in 1..Len(log)} \ {"debug"}

\* C13: for a read error (2003) the first parameter alone decides the
\* severity logged: critical for the operation-result, medium-error and
\* hardware-error texts, info and never critical for the tray-open text,
\* warning for any other text; the record is an error message whose error
\* is the first parameter, whose parameters are the remaining ones and whose
\* code, flags, count and text are those of the message.
C13_ReadErrorSeverityAndRepack ==
    (LineCallEnded("MSG") /\ WireInts[1] = 2003 /\ Len(WireParams) >= 1) =>
        /\ pc = "done"
        /\ LoggedLevels = {ReadErrorSeverity(WireParams[1])}
        /\ Record = [cls |-> "MakeMKVErrorMessage", code |-> WireInts[1],
                     flags |-> WireInts[2], count |-> WireInts[3],
                     message |-> WireStrs[1], sprintf |-> Tail(WireParams),
                     error |-> WireParams[1]]

\* a read error whose first parameter is the tray-open text was logged at
\* info level and became an error message
C13_Witness ==
    /\ LineCallEnded("MSG")
    /\ WireInts[1] = 2003
    /\ Len(WireParams) = 2
    /\ WireParams[1] = ERROR_MESSAGE_TRAY_OPEN
    /\ LoggedLevels = {"info"}
    /\ Record.error = ERROR_MESSAGE_TRAY_OPEN

\* C14: a message line with an error code and too few parameters for an
\* error message is a decode failure like any other: no error message is
\* yielded for it, run() buffers the line and goes on, and the call of run()
\* ends with nothing but MakeMkvRuntimeError.
C14_ShortErrorMessageIsDecodeFailure ==
    (caller = "direct" /\ Line_MsgErrorBare \in Range(Lines)) =>
        /\ Line_MsgErrorBare \in Range(buffer)
        /\ raised \in {NoExc, "MakeMkvRuntimeError"}
        /\ Terminal => raised = "MakeMkvRuntimeError"

\* the media kind of a drive record is Unknown: none of the three is set
MediaUnknown(d) == ~d.media_cd /\ ~d.media_dvd /\ ~d.media_bd

\* C15: a drive line never fails to decode; with flags outside
\* {0, 1, 12, 28} its media kind is Unknown, with a visibility code outside
\* {0, 1, 2, 3, 256} the drive is not attached, and DRV:6,256,999,0,"","",""
\* gives a drive that is not attached and whose media kind is Unknown.
C15_UnknownDriveValues ==
    LineCallEnded("DRV") =>
        /\ pc = "done"
        /\ WireInts[4] \notin {0, 1, 12, 28} => MediaUnknown(Record)
        /\ WireInts[2] \notin {0, 1, 2, 3, 256} => ~Record.attached
        /\ call[1].line = Line_DrvAbsent =>
              ~Record.attached /\ MediaUnknown(Record)

\* the line is well formed: every line of the direct calls is, except a
\* message with an error code and no parameter
WellFormed ==
    call[1].tag = "MSG" /\ WireInts[1] \in ErrorCodes => Len(WireParams) >= 1

\* the tokens a message record holds after its first four fields, in the
\* order of the line: the template and the parameters of a message, the
\* error text and the parameters that follow it of an error message
RemainingTokens ==
    IF Record.cls = "MakeMKVErrorMessage"
    THEN <<Record.error>> \o Record.sprintf
    ELSE Record.sprintf

\* the fields of the record the claim expects for the line
ExpectedFields ==
    LET i == WireInts
        s == WireStrs
        tag == call[1].tag
    IN  CASE tag = "TINFO" ->
                /\ Record.cls = "TInfo"
                /\ <<Record.id, Record.code, Record.value, Record.tid>>
                   = <<i[2], i[3], s[1], i[1]>>
          [] tag = "SINFO" ->
                /\ Record.cls = "SInfo"
                /\ <<Record.id, Record.code, Record.value, Record.tid,
                     Record.sid>>
                   = <<i[3], i[4], s[1], i[1], i[2]>>
          [] tag = "DRV" ->
                /\ Record.cls = "Drive"
                /\ <<Record.mount, Record.disc, Record.info, Record.flags,
                     Record.enabled, Record.visible, Record.index>>
                   = <<s[3], s[2], s[1], i[4], i[3] = 999, i[2], i[1]>>
          [] tag = "MSG" ->
                /\ <<Record.code, Record.flags, Record.count, Record.message>>
                   = <<i[1], i[2], i[3], s[1]>>
                /\ RemainingTokens = Tail(s)
          [] tag = "CINFO" ->
                /\ Record.cls = "CInfo"
                /\ <<Record.id, Record.code, Record.value>>
                   = <<i[1], i[2], s[1]>>
          [] tag = "TCOUNT" ->
                Record.cls = "Titles" /\ Record.count = i[1]
          [] tag = "PRGV" ->
                /\ Record.cls = "ProgressBarValues"
                /\ <<Record.current, Record.total, Record.maximum>>
                   = <<i[1], i[2], i[3]>>
          [] tag \in {"PRGC", "PRGT"} ->
                /\ Record.cls = IF tag = "PRGC" THEN "ProgressBarCurrent"
                                ELSE "ProgressBarTotal"
                /\ <<Record.code, Record.oid, Record.name>>
                   = <<i[1], i[2], s[1]>>

\* C16 as claimed: every well-formed line decodes, to the record of its tag,
\* and the fields of the record are the fields of the line taken by
\* position after the reordering: the title id of TINFO and the title and
\* stream ids of SINFO last, the fields of DRV in reverse, and for MSG the
\* first four fields followed by every remaining one, the template and then
\* the parameters, in order.
C16_FieldsByPosition ==
    \A tag \in OutputType :
        (LineCallEnded(tag) /\ WellFormed) =>
            /\ pc = "done"
            /\ ret[1][1] = tag
            /\ ExpectedFields

\* one leading and one trailing double quote removed, when present
StripOneQuote(s) ==
    LET t == IF s # <<>> /\ Head(s) = Quote THEN Tail(s) ELSE s
    IN  IF t # <<>> /\ t[Len(t)] = Quote THEN SubSeq(t, 1, Len(t) - 1) ELSE t

\* the tokens the claim gives for a payload
ClaimedTokens(content, n, m) ==
    LET header == PySplit(content, <<",">>, n)
        pieces == PySplit(header[Len(header)], <<Quote, ",", Quote>>, m)
    IN  SubSeq(header, 1, Len(header) - 1)
        \o [i \in 1..Len(pieces) |-> StripOneQuote(pieces[i])]

\* C17: parse_content(payload, n, m) splits on ',' at most n times from the
\* left, splits the tail on '","' at most m times and strips exactly one
\* leading and one trailing double quote from each piece of the tail; the
\* tokens before the tail are returned as they are.
C17_StripsExactlyOneQuote ==
    (caller = "call" /\ pc = "done" /\ call[1].fn = "parse_content") =>
        ret[1] = ClaimedTokens(call[1].content, call[1].num_header,
                               call[1].num_message)

\* ------------------------------------------------------------------------
\* The throttle of makemkv_info
\* ------------------------------------------------------------------------

\* makemkv_info has returned control: by ending, raising or being closed
InfoEnded == pc \in {"done", "raised", "closed"}

\* the events of trace, without the counts
TraceEvents == [i \in 1..Len(trace) |-> trace[i].ev]

\* C18: with a ceiling of 0 the throttle is a no-op whatever number of
\* makemkvcon processes is running: the pre-wait and the post-wait return
\* at once and no cooldown is slept.
C18_CeilingZeroIsNoOp ==
    max_processes = 0 =>
        /\ pc = "pre_wait" => ENABLED PreWait
        /\ pc = "post_wait" => ENABLED PostWait
        /\ \A i \in 1..Len(trace) : trace[i].ev # "sleep"
        /\ InfoEnded /\ ~Closed =>
              TraceEvents = <<"pre_wait", "popen", "post_wait">>

\* with a ceiling of 0 an info query started and ended while other
\* makemkvcon processes were running
C18_Witness ==
    /\ max_processes = 0
    /\ pc = "done"
    /\ Len(trace) = 3
    /\ trace[1].running > 0
    /\ trace[3].running > 0

\* C19: with a ceiling above 0 the child is started only after the pre-wait
\* has seen a count at or below the ceiling; after the query the cooldown is
\* slept, then the post-wait returns on a count at or below the ceiling, and
\* only then does control return: after a normal end, after an exception of
\* run() and after the consumer dropped the generator.
C19_ThrottleOrder ==
    max_processes > 0 =>
        /\ pc \notin {"start", "pre_wait"} =>
              /\ Len(trace) >= 1
              /\ trace[1].ev = "pre_wait"
              /\ trace[1].running <= max_processes
        /\ \A i \in 1..Len(trace) : trace[i].ev = "popen" => i = 2
        /\ ChildAlive => Len(trace) = 2 /\ trace[2].ev = "popen"
        /\ InfoEnded =>
              /\ TraceEvents =
                    IF Closed
                    THEN <<"pre_wait", "popen", "close", "sleep", "post_wait">>
                    ELSE <<"pre_wait", "popen", "sleep", "post_wait">>
              /\ trace[Len(trace)].running <= max_processes

\* the consumer dropped the generator and the finally clause slept and
\* waited before control returned
C19_Witness ==
    /\ max_processes = 1
    /\ pc = "closed"
    /\ TraceEvents = <<"pre_wait", "popen", "close", "sleep", "post_wait">>
    /\ drives # <<>>

\* a step in which a job starts its child process is taken with at most
\* the ceiling of makemkvcon processes running
C20_StartStep ==
    (/\ max_processes > 0
     /\ \/ pc = "admitted" /\ pc' = "reading"
        \/ peer = "admitted" /\ peer' = "running")
    => Count <= max_processes

\* C20: when two jobs call makemkv_info concurrently with a ceiling above
\* 0, a child process is only ever started while the number of makemkvcon
\* processes already running is at or below the ceiling.
C20_StartOnlyAtOrBelowCeiling == [][C20_StartStep]_vars

\* ------------------------------------------------------------------------
\* manual_wait and the abandoned job
\* ------------------------------------------------------------------------

\* the notices sent so far with the given body
NoticesOf(body) == {j \in 1..Len(notices) : notices[j].body = body}

\* C21: manual_wait checks job.manual_start once per pass, each pass after
\* one more minute, at most 30 times; only the last check made can have
\* seen the flag set and it ends the wait with True and the notice 'The Wait
\* is Over', after which no reminder is sent; manual_wait returns False
\* only after 30 checks that all saw the flag unset, and while fewer checks
\* were made and none saw the flag set the wait goes on.
C21_WaitEndsOnFlagOrAfterThirty ==
    /\ Len(checks) <= 30
    /\ \A k \in 1..Len(checks) :
          checks[k] => k = Len(checks) /\ user_ready = Some(TRUE)
    /\ pc = "waiting" =>
          /\ user_ready = None
          /\ Len(checks) < 30
          /\ wait_i = 30 - Len(checks)
    /\ user_ready # None =>
          /\ checks # <<>>
          /\ user_ready[1] <=> checks[Len(checks)]
          /\ ~user_ready[1] => Len(checks) = 30
          /\ user_ready[1] =>
                \E j \in NoticesOf("thanks") :
                    /\ notices[j].title = Title_WaitOver
                    /\ notices[j].after = Len(checks)
                    /\ \A m \in (j + 1)..Len(notices) :
                          notices[m].title # Title_Waiting
    /\ NoticesOf("thanks") # {} => user_ready = Some(TRUE)

\* C21 witness: the flag was seen set at the twelfth check, after eleven
\* checks that saw it unset, and manual_wait returned True.
C21_Witness ==
    /\ user_ready = Some(TRUE)
    /\ Len(checks) = 12
    /\ NoticesOf("reminder") # {}

\* C22: while the flag stays unset a reminder is sent every 10 minutes, and
\* the notice that the job is about to be cancelled is sent with a minute
\* left: at least one more check follows it before manual_wait returns
\* False.
C22_RemindersEveryTenAndCheckAfterLastCall ==
    /\ \A j, m \in NoticesOf("reminder") :
          (notices[m].after - notices[j].after) % 10 = 0
    /\ user_ready = Some(FALSE) =>
          \E j \in NoticesOf("cancel") : notices[j].after < Len(checks)

\* C23: when manual_wait returned False and makemkv has returned, the notice
\* 'Job Abandoned' was sent, nothing was ripped, and makemkv returned None.
C23_AbandonedJobReturnsNone ==
    (user_ready = Some(FALSE) /\ result # None) =>
        /\ \E j \in NoticesOf("abandoned") : notices[j].title = Title_Abandoned
        /\ ripped = <<>>
        /\ result = Some(None)

\* ------------------------------------------------------------------------
\* The child processes of makemkv and the tracks it rips
\* ------------------------------------------------------------------------

\* the places of the events ev in trace
EventsOf(ev) == {i \in 1..Len(trace) : trace[i].ev = ev}

\* the place in trace of the pre-wait of the info query of makemkv_mkv, 0
\* before it: the drive scan of makemkv, when there is one, comes first
InfoQueryAt ==
    LET P == EventsOf("pre_wait")
        scans == IF config.mdisc = None THEN 1 ELSE 0
    IN  IF Cardinality(P) <= scans THEN 0
        ELSE CHOOSE q \in P : \A r \in P : r <= q

\* the child i of trace was started by a rip or the backup: by a run() that
\* was called without makemkv_info, whose pre-wait goes before its child
RipChild(i) == i = 1 \/ trace[i - 1].ev # "pre_wait"

\* the info query of makemkv_mkv is over before the child i of trace is
\* started: its own child was started, the cooldown was slept if there is
\* one and the post-wait has returned
AfterInfoQuery(i) ==
    /\ InfoQueryAt # 0
    /\ trace[InfoQueryAt + 1].ev = "popen"
    /\ \E w \in EventsOf("post_wait") :
          /\ InfoQueryAt + 1 < w
          /\ w < i
          /\ max_processes # 0 =>
                \E c \in EventsOf("sleep") : InfoQueryAt + 1 < c /\ c < w

\* the last title of the info query has been committed
LastTrackCommitted ==
    /\ phase # "info"
    /\ track_id # None =>
          /\ tracks # <<>>
          /\ tracks[Len(tracks)].track_id = track_id[1]
          /\ seconds = 0
          /\ filename = <<>>

C24_OneChild ==
    /\ live <= 1
    /\ (ripped # <<>> /\ Branch(config) = "mkv") => LastTrackCommitted
    /\ \A i \in EventsOf("popen") :
          RipChild(i) =>
              /\ ripped # <<>>
              /\ Branch(config) = "mkv" => AfterInfoQuery(i)
              /\ \A j \in EventsOf("popen") : ~RipChild(j) => j < i

C24_Step ==
    /\ live' > live => live = 0 /\ raised = NoExc
    /\ Len(ripped') > Len(ripped) =>
          /\ live = 0
          /\ raised = NoExc
          /\ phase # "info"
          /\ ripped # <<>> => returncode = Some(0)

\* C24: a job has at most one makemkvcon child process at any time: a child
\* is started only when none is alive and nothing was raised, a rip of
\* makemkv_mkv is started only after its info query is over (child waited
\* for, cooldown and post-wait done, last track committed), the rip of a
\* track is started only after the rip of the track before it was waited
\* for, and once a rip has raised no rip is started any more.
C24_OneChildAtATime == []C24_OneChild /\ [][C24_Step]_vars

\* C24 witness: with a ceiling above 0, after the drive scan of makemkv and
\* the info query, the rip of the second track is running after the rip of
\* the first.
C24_Witness ==
    /\ Len(ripped) = 2
    /\ ripped[2].what = "track"
    /\ live = 1
    /\ max_processes # 0
    /\ config.mdisc = None

\* row k of job.tracks has been ripped
Ripped(k) == \E j \in 1..Len(ripped) : ripped[j].row = k

\* MINLENGTH <= track.length <= MAXLENGTH for row k
InLengthRange(k) ==
    config.MINLENGTH <= tracks[k].seconds /\ tracks[k].seconds <= config.MAXLENGTH

\* process_single_tracks was called and has ended
TracksEnded ==
    /\ phase \in {"auto", "manual"}
    /\ user_ready # Some(FALSE)
    /\ pc \in {"returned", "raised"}

\* in 'manual' mode no step changes a process flag that job.tracks holds
C25_ManualStep ==
    (phase = "manual" /\ pc # "tracks") => process' = process

C25_AllTracks ==
    TracksEnded =>
        \A k \in 1..Len(tracks) :
            IF phase = "auto"
            THEN /\ Ripped(k) <=> InLengthRange(k)
                 /\ process[k] <=> InLengthRange(k)
            ELSE Ripped(k) <=> process[k]

\* C25 as claimed: when process_single_tracks has ended, in 'auto' mode
\* every track was ripped if and only if its length is within MINLENGTH and
\* MAXLENGTH, both included, and its process flag has that value; in
\* 'manual' mode no flag was changed and every track was ripped if and only
\* if its flag was set.
C25_RippedIffSelected == []C25_AllTracks /\ [][C25_ManualStep]_vars

\* ------------------------------------------------------------------------
\* makemkv_info: the status of the job
\* ------------------------------------------------------------------------

\* makemkv_info is between the end of its pre-wait and its finally clause:
\* run() is being consumed
Consuming ==
    pc \in {"admitted", "reading", "yielded", "drive_yielded", "abandoned",
            "unwinding", "info_finally"}

\* C26: the job status is VIDEO_WAITING during the pre-wait, VIDEO_INFO
\* exactly from the end of the pre-wait to the finally clause, VIDEO_WAITING
\* during cooldown and post-wait, and VIDEO_RIPPING once makemkv_info has
\* ended, whether it returned, raised or was closed by its consumer.
C26_StatusProtocol ==
    /\ pc = "start" => status = "ACTIVE"
    /\ pc = "pre_wait" => status = "VIDEO_WAITING"
    /\ Consuming <=> status = "VIDEO_INFO"
    /\ pc = "post_wait" => status = "VIDEO_WAITING"
    /\ InfoEnded => status = "VIDEO_RIPPING"

\* C26 witness: with a ceiling, run() raised MakeMkvRuntimeError and
\* makemkv_info has ended with it after cooldown and post-wait.
C26_Witness ==
    /\ pc = "raised"
    /\ raised = "MakeMkvRuntimeError"
    /\ max_processes # 0
    /\ status = "VIDEO_RIPPING"
    /\ \E i \in 1..Len(trace) : trace[i].ev = "sleep"

\* ------------------------------------------------------------------------
\* The info query that fails
\* ------------------------------------------------------------------------

C27_Failed ==
    (caller = "tracks" /\ raised = "MakeMkvRuntimeError") =>
        /\ pc \in {"info_finally", "post_wait", "raised"}
        /\ Runs = <<>> => tracks = <<>> /\ track_id = None
        /\ Runs # <<>> =>
              /\ CommittedIds = Front(RunIds)
              /\ track_id = Some(RunIds[Len(RunIds)])

C27_Step ==
    /\ Len(tracks') >= Len(tracks)
    /\ SubSeq(tracks', 1, Len(tracks)) = tracks

\* C27: when the record stream of the info query ends with
\* MakeMkvRuntimeError the error leaves process_messages: the title pending
\* then is never committed, and the commits made for the titles before it
\* stay as they are; no step removes or changes a commit.
C27_FailedQueryKeepsCommits == []C27_Failed /\ [][C27_Step]_vars

\* C27 witness: the query of a disc with two titles has failed with
\* MakeMkvRuntimeError: the first title is committed, the second is not.
C27_Witness ==
    /\ caller = "tracks"
    /\ pc = "raised"
    /\ raised = "MakeMkvRuntimeError"
    /\ Len(RunIds) = 2
    /\ Len(tracks) = 1
    /\ track_id = Some(RunIds[2])

\* ------------------------------------------------------------------------
\* Error messages in the output of a rip
\* ------------------------------------------------------------------------

\* the lines of a direct run with a known tag and a payload that does not
\* fit it, or with an error code and no parameter
Malformed == {Line_TinfoShort, Line_TcountBad, Line_MsgErrorBare}

\* every line read has a payload that fits its tag, if it has a known tag
NoEscape == \A i \in 1..Len(Lines) : Lines[i] \notin Malformed

\* the lines read that decode to an error message
ErrorMessageLines ==
    {i \in 1..Len(Lines) :
        /\ Decodes(Lines[i])
        /\ ParsedLine[Lines[i]].data.cls = "MakeMKVErrorMessage"}

\* C28: when every line with a known tag decodes, a run() consumed by
\* collections.deque ends with MakeMkvRuntimeError if the exit status is
\* not 0 or a line was buffered, and without error otherwise, whatever
\* messages were decoded; an error message is a record that is yielded when
\* MSG is selected.
C28_ErrorMessageIsData ==
    (caller = "direct" /\ Terminal /\ NoEscape) =>
        /\ raised = IF returncode # Some(0) \/ buffer # <<>>
                    THEN "MakeMkvRuntimeError" ELSE NoExc
        /\ \A i \in 1..Len(Lines) : Decodes(Lines[i]) \/ TagError(Lines[i])
        /\ buffer # <<>> <=> \E i \in 1..Len(Lines) : TagError(Lines[i])
        /\ "MSG" \in select =>
              \A i \in ErrorMessageLines :
                  ParsedLine[Lines[i]].data \in Range(yielded)

\* C28 witness: a rip whose output holds an error message and no line that
\* fails to decode exits with status 0 and run() ends without error.
C28_Witness ==
    /\ caller = "direct"
    /\ pc = "done"
    /\ raised = NoExc
    /\ "MSG" \in select
    /\ ErrorMessageLines # {}
    /\ \A i \in 1..Len(Lines) : Decodes(Lines[i])

\* ------------------------------------------------------------------------
\* The drives of a scan
\* ------------------------------------------------------------------------

\* the drives get_drives has taken from makemkv_info and looked at
DrivesSeen ==
    IF pc = "yielded" THEN SubSeq(yielded, 1, Len(yielded) - 1) ELSE yielded

IsAttached(d) == d.attached

\* the number of media kinds a drive reports
MediaKinds(d) ==
    (IF d.media_cd THEN 1 ELSE 0) + (IF d.media_dvd THEN 1 ELSE 0)
        + (IF d.media_bd THEN 1 ELSE 0)

\* C29: for every visibility code and flags value, a decoded drive is never
\* both loaded and open, is not attached exactly when its visibility code
\* is none of EMPTY, OPEN, LOADED, LOADING, is then neither loaded nor open,
\* and reports at most one media kind; get_drives passes on exactly the
\* attached drives among those decoded, in the order of the lines.
C29_DriveFlagsAndAttachedDrives ==
    /\ \A i \in 1..Len(yielded) :
          LET d == yielded[i]
          IN  /\ ~(d.loaded /\ d.open)
              /\ ~d.attached <=> d.visible \notin {0, 1, 2, 3}
              /\ ~d.attached => ~d.loaded /\ ~d.open
              /\ MediaKinds(d) <= 1
    /\ yielded = YieldOf(Lines, select)
    /\ drives = SelectSeq(DrivesSeen, IsAttached)

\* C29 witness: a scan of a drive that is not attached and of a loaded drive
\* has ended and passed on the second only.
C29_Witness ==
    /\ Len(yielded) = 2
    /\ Len(drives) = 1
    /\ ~yielded[1].attached
    /\ yielded[2].loaded
    /\ pc = "done"

====
